---------------------------- MODULE Spec2Model ----------------------------
(***************************************************************************)
(* Verification model of the dictionary application's search core:        *)
(* the shared trie index (TrieService), the two-tier cache (CacheService), *)
(* the relevance scorers, the per-source dictionary services, the search   *)
(* history and the cross-source merge of SearchScreen.handleSearch.        *)
(*                                                                         *)
(* Strings are sequences of one-character strings.  Objects that the code  *)
(* compares by reference (DictionaryEntry) carry a "ref" field: two        *)
(* records are the same object iff they are equal including ref.           *)
(***************************************************************************)
EXTENDS Integers, Sequences, FiniteSets, TLC

VARIABLES
    root,                 \* TrieService.root: path |-> TrieNode
    currentDictionaryId,  \* TrieService.currentDictionaryId
    trieIsInitialized,    \* TrieService.isInitialized
    indexed,              \* history: <<entry, dictionaryId>> pairs that insert() stored
    trieOut,              \* history: the last TrieService call and what it returned
    nextRef,              \* allocator of object identities
    memoryCache,          \* CacheService.memoryCache
    diskCache,            \* CacheService.diskCache
    totalSize,            \* CacheService.totalSize
    storage,              \* AsyncStorage: key |-> stored item
    now,                  \* Date.now()
    lastSet,              \* history: key |-> time of the latest set(key, _)
    removed,              \* history: the keys invalidated or cleared since their latest set
    cacheOps,             \* history: number of CacheService calls made
    cacheOut,             \* history: the last CacheService call; for a get, the set before it
    historyImpl,          \* which implementation of the search history the build has
    adds,                 \* history: the items of the history additions, in call order
    historyReliable,      \* history: no AsyncStorage call of an addition was rejected
    freshCount,           \* history: distinct queries added so far
    disturbances,         \* history: re-additions and failing additions so far
    pendingAdds,          \* the history additions that have read the store and not yet written
    screenQuery,          \* SearchScreen: query
    screenResults,        \* SearchScreen: results, each entry tagged with its source
    showRecent,           \* SearchScreen: showRecent
    screenOut,            \* history: the last handleSearch and the list it built
    sourcesReturn,        \* what the sources hold for the texts typed: (source, entry) pairs
    inFlight,             \* SearchScreen: the texts of the handleSearch calls awaiting their searches
    scoreOut,             \* history: the last scoring of the two entries
    scoredPair,           \* the two entries that get scored
    svcSource,            \* the per-source service that is followed
    svcDataset,           \* its dataset: whether it loads, and its raw records
    svcDictionary,        \* the service's dictionary
    svcIsInitialized,     \* the service's isInitialized
    calls,                \* the calls of initialize() and search() in flight, by slot
    started,              \* history: the operations called, in call order
    normalizeCount,       \* history: how often the dataset was normalized
    buildCount,           \* history: how often the service had the trie built
    overlapped,           \* history: an initialize() began while another was under way
    loadFailed,           \* history: an initialize() has thrown
    svcOut                \* history: the last call that ended, and its outcome

trieVars == <<root, currentDictionaryId, trieIsInitialized, indexed, trieOut>>

cacheVars == <<memoryCache, diskCache, totalSize, storage, now, lastSet, removed, cacheOps,
               cacheOut>>

historyVars == <<historyImpl, adds, historyReliable, freshCount, disturbances, pendingAdds>>

screenVars == <<screenQuery, screenResults, showRecent, screenOut, sourcesReturn, inFlight>>

scoreVars == <<scoreOut, scoredPair>>

\* the state of the callers of the trie and the cache
serviceVars == <<svcSource, svcDataset, svcDictionary, svcIsInitialized, calls, started,
                 normalizeCount, buildCount, overlapped, loadFailed, svcOut>>

appVars == <<historyVars, screenVars, scoreVars, serviceVars>>

vars == <<trieVars, nextRef, cacheVars, appVars>>

-----------------------------------------------------------------------------
(* Bounds of the model *)

\* entries inserted into the trie over a whole behaviour
MaxInserted == 2
\* CacheService calls over a whole behaviour
MaxCacheOps == 3
\* fuzzySearch's default maxDistance, which every caller in the code uses
DefaultMaxDistance == 2

-----------------------------------------------------------------------------
(* Strings *)

Undefined == "undefined"

\* String.prototype.toLowerCase on the model's alphabet {a, b, q, A, B, Q, digits, space}
LowerChar(c) ==
    IF c = "A" THEN "a" ELSE IF c = "B" THEN "b" ELSE IF c = "Q" THEN "q" ELSE c

toLowerCase(s) == [i \in 1..Len(s) |-> LowerChar(s[i])]

IsSpace(c) == c = " "

\* String.prototype.startsWith, String.prototype.includes
startsWith(s, p) == Len(p) <= Len(s) /\ SubSeq(s, 1, Len(p)) = p
includes(s, p) == \E i \in 0..(Len(s) - Len(p)) : SubSeq(s, i + 1, i + Len(p)) = p

\* s.split(/\s+/): the pieces between maximal runs of whitespace; a leading or
\* trailing run leaves an empty piece, and "" splits into [""].
RECURSIVE SplitFrom(_, _, _, _)
SplitFrom(s, i, cur, inRun) ==
    IF i > Len(s) THEN <<cur>>
    ELSE IF IsSpace(s[i])
         THEN IF inRun THEN SplitFrom(s, i + 1, cur, TRUE)
                       ELSE <<cur>> \o SplitFrom(s, i + 1, <<>>, TRUE)
         ELSE SplitFrom(s, i + 1, Append(cur, s[i]), FALSE)

SplitWhitespace(s) == SplitFrom(s, 1, <<>>, FALSE)

RECURSIVE Flatten(_)
Flatten(ss) == IF ss = <<>> THEN <<>> ELSE Head(ss) \o Flatten(Tail(ss))

Min2(x, y) == IF x <= y THEN x ELSE y

Min3(x, y, z) == Min2(x, Min2(y, z))

-----------------------------------------------------------------------------
(* TrieService *)

\* the dictionary ids the services pass to the trie
DictIds == {"yahoo", "cambridge"}

\* a fresh node; entries[id] is the empty list where the code has no list yet
\* (every read of the code is entries[id] || [])
createNode == [children |-> <<>>, isEndOfWord |-> FALSE, entries |-> [d \in DictIds |-> <<>>]]

Includes(list, x) == \E i \in 1..Len(list) : list[i] = x

\* how often a list holds an object
CountIn(list, x) == Cardinality({i \in 1..Len(list) : list[i] = x})

\* the walk of insert(): one node per character, created when missing
RECURSIVE InsertPath(_, _, _)
InsertPath(r, word, i) ==
    IF i > Len(word) THEN r
    ELSE LET p      == SubSeq(word, 1, i)
             parent == SubSeq(word, 1, i - 1)
         IN  IF p \in DOMAIN r
             THEN InsertPath(r, word, i + 1)
             ELSE InsertPath((p :> createNode) @@
                               [r EXCEPT ![parent].children = Append(@, word[i])],
                             word, i + 1)

\* the list insert() leaves at the terminal node: push unless includes(entry)
PushUnlessIncluded(list, entry) ==
    IF Includes(list, entry) THEN list ELSE Append(list, entry)

\* insert(word, entry) with currentDictionaryId = id (id is set)
insert(r, id, word, entry) ==
    LET r1   == InsertPath(r, word, 1)
        node == r1[word]
    IN  [r1 EXCEPT ![word] =
            [node EXCEPT !.isEndOfWord = TRUE,
                         !.entries[id] = PushUnlessIncluded(@, entry)]]

\* the definition words of an entry, as initialize() collects them
DefinitionWords(entry) ==
    Flatten([m \in 1..Len(entry.meanings) |->
               Flatten([d \in 1..Len(entry.meanings[m].definitions) |->
                          SplitWhitespace(toLowerCase(entry.meanings[m].definitions[d]))])])

\* only words longer than 2 characters are indexed
IsIndexedToken(word) == Len(word) > 2

\* a mutant of IndexKeys: the word is indexed as written, not lowercased
IndexKeysAsWritten(entry) ==
    <<entry.word>> \o SelectSeq(DefinitionWords(entry), IsIndexedToken)

\* the keys under which initialize() inserts one entry, in order
IndexKeys(entry) ==
    <<toLowerCase(entry.word)>> \o SelectSeq(DefinitionWords(entry), IsIndexedToken)

RECURSIVE InsertKeys(_, _, _, _)
InsertKeys(r, id, keys, entry) ==
    IF keys = <<>> THEN r
    ELSE InsertKeys(insert(r, id, Head(keys), entry), id, Tail(keys), entry)

RECURSIVE InsertAll(_, _, _)
InsertAll(r, id, dictionary) ==
    IF dictionary = <<>> THEN r
    ELSE InsertAll(InsertKeys(r, id, IndexKeys(Head(dictionary)), Head(dictionary)),
                   id, Tail(dictionary))

\* insert() throws 'Dictionary ID not set' when currentDictionaryId is falsy
InsertThrows(id) == id = Undefined

\* initialize(dictionary, dictionaryId): the trie it leaves and whether it threw.
\* The first insert throws before it changes anything, so a throwing call
\* leaves the tree as it was.
TrieInitializeResult(r, inited, dictionary, dictionaryId) ==
    IF dictionary # <<>> /\ InsertThrows(dictionaryId)
    THEN [root |-> r, isInitialized |-> inited, threw |-> TRUE]
    ELSE [root |-> InsertAll(r, dictionaryId, dictionary),
          isInitialized |-> TRUE, threw |-> FALSE]

\* a mutant of NodeEntries: the entries of every dictionary are collected
NodeEntriesOfAll(r, path, dictionaryId) ==
    r[path].entries["yahoo"] \o r[path].entries["cambridge"]

\* node.entries[dictionaryId] || []
NodeEntries(r, path, dictionaryId) ==
    IF dictionaryId \in DictIds THEN r[path].entries[dictionaryId] ELSE <<>>

RECURSIVE collectAllEntries(_, _, _)
RECURSIVE CollectChildren(_, _, _, _)
collectAllEntries(r, path, dictionaryId) ==
    NodeEntries(r, path, dictionaryId) \o CollectChildren(r, path, dictionaryId, 1)
CollectChildren(r, path, dictionaryId, k) ==
    IF k > Len(r[path].children) THEN <<>>
    ELSE collectAllEntries(r, Append(path, r[path].children[k]), dictionaryId)
           \o CollectChildren(r, path, dictionaryId, k + 1)

\* the walk of search(): FALSE as soon as a character has no child
RECURSIVE WalkPrefix(_, _, _)
WalkPrefix(r, p, i) ==
    IF i > Len(p) THEN TRUE
    ELSE IF SubSeq(p, 1, i) \in DOMAIN r THEN WalkPrefix(r, p, i + 1) ELSE FALSE

search(r, prefix, dictionaryId) ==
    LET normalizedPrefix == toLowerCase(prefix)
    IN  IF WalkPrefix(r, normalizedPrefix, 1)
        THEN collectAllEntries(r, normalizedPrefix, dictionaryId)
        ELSE <<>>

\* a mutant of levenshteinDistance: only the lengths are compared
levenshteinDistanceOfLengths(a, b) ==
    IF Len(a) >= Len(b) THEN Len(a) - Len(b) ELSE Len(b) - Len(a)

\* levenshteinDistance(a, b): the table of the code, cell by cell
levenshteinDistance(a, b) ==
    LET matrix[i \in 0..Len(a), j \in 0..Len(b)] ==
            IF i = 0 THEN j
            ELSE IF j = 0 THEN i
            ELSE IF a[i] = b[j] THEN matrix[i - 1, j - 1]
            ELSE Min3(matrix[i - 1, j - 1] + 1, matrix[i, j - 1] + 1, matrix[i - 1, j] + 1)
    IN  matrix[Len(a), Len(b)]

\* a mutant of ChildBudget: the budget shrinks by one per level
ChildBudgetDecremented(remainingDistance) == remainingDistance - 1

\* the budget searchNode passes to a child: remainingDistance, unchanged
ChildBudget(remainingDistance) == remainingDistance

RECURSIVE searchNode(_, _, _, _, _, _)
RECURSIVE SearchChildren(_, _, _, _, _, _, _)
searchNode(r, path, remainingDistance, normalizedQuery, dictionaryId, maxDistance) ==
    IF remainingDistance < 0 THEN <<>>
    ELSE (IF r[path].isEndOfWord
             /\ levenshteinDistance(path, normalizedQuery) <= maxDistance
          THEN NodeEntries(r, path, dictionaryId) ELSE <<>>)
         \o SearchChildren(r, path, remainingDistance, normalizedQuery,
                           dictionaryId, maxDistance, 1)
SearchChildren(r, path, remainingDistance, normalizedQuery, dictionaryId, maxDistance, k) ==
    IF k > Len(r[path].children) THEN <<>>
    ELSE searchNode(r, Append(path, r[path].children[k]), ChildBudget(remainingDistance),
                    normalizedQuery, dictionaryId, maxDistance)
         \o SearchChildren(r, path, remainingDistance, normalizedQuery,
                           dictionaryId, maxDistance, k + 1)

fuzzySearch(r, query, dictionaryId, maxDistance) ==
    searchNode(r, <<>>, maxDistance, toLowerCase(query), dictionaryId, maxDistance)

-----------------------------------------------------------------------------
(* The trie under its callers: initialize, search, fuzzySearch *)

Str1(a) == <<a>>
Str2(a, b) == <<a, b>>
Str3(a, b, c) == <<a, b, c>>

\* normalized entries handed to the trie (without their identity)
TrieShapes ==
    { [word |-> Str2("a", "B"),
       meanings |-> <<[partOfSpeech |-> "word",
                       definitions |-> <<<<" ", "b", "a", "a">>>>, examples |-> <<>>]>>,
       phonetic |-> <<>>, translation |-> <<>>],
      [word |-> Str2("A", "b"),
       meanings |-> <<[partOfSpeech |-> "word",
                       definitions |-> <<<<"a", "b", "a", " ", "a", "b">>>>, examples |-> <<>>]>>,
       phonetic |-> <<>>, translation |-> <<>>],
      [word |-> Str3("a", "B", "b"),
       meanings |-> <<[partOfSpeech |-> "word",
                       definitions |-> <<<<"A", "b", "b", " ", " ", "b", "a", "b">>>>,
                       examples |-> <<>>]>>,
       phonetic |-> <<>>, translation |-> <<>>] }

\* the strings the callers search for
TrieQueries == { Str2("a", "B"), Str2("b", "b"), Str3("b", "a", "b"), Str3("b", "B", "b") }

\* the maxDistance values of the callers: the default and the tighter 1
MaxDistances == {1, DefaultMaxDistance}

SeqsUpTo(S, n) == UNION {[1..k -> S] : k \in 0..n}

\* the objects of a dictionary: shape i becomes the object with identity base + i
WithRefs(shapes, base) ==
    [i \in 1..Len(shapes) |->
        [ref |-> base + i, word |-> shapes[i].word, phonetic |-> shapes[i].phonetic,
         meanings |-> shapes[i].meanings, translation |-> shapes[i].translation]]

NoCall == [op |-> "none"]

HistoryInit ==
    /\ adds = <<>>
    /\ historyReliable = TRUE
    /\ freshCount = 0
    /\ disturbances = 0
    /\ pendingAdds = <<>>

CacheInit ==
    /\ memoryCache = <<>>
    /\ diskCache = <<>>
    /\ totalSize = 0
    /\ storage = <<>>
    /\ now = 0
    /\ lastSet = <<>>
    /\ removed = {}
    /\ cacheOps = 0
    /\ cacheOut = NoCall

TrieInit ==
    /\ root = (<<>> :> createNode)
    /\ currentDictionaryId = Undefined
    /\ trieIsInitialized = FALSE
    /\ indexed = {}
    /\ trieOut = NoCall
    /\ nextRef = 0

\* TrieService.initialize(dictionary, dictionaryId)
TrieInitialize ==
    \E shapes \in SeqsUpTo(TrieShapes, MaxInserted - nextRef),
       dictionaryId \in DictIds \cup {Undefined} :
        LET dictionary == WithRefs(shapes, nextRef)
            res == TrieInitializeResult(root, trieIsInitialized, dictionary, dictionaryId)
        IN  /\ currentDictionaryId' = dictionaryId
            /\ root' = res.root
            /\ trieIsInitialized' = res.isInitialized
            /\ indexed' = IF res.threw THEN indexed
                          ELSE indexed \cup {[entry |-> dictionary[i], id |-> dictionaryId] :
                                               i \in 1..Len(dictionary)}
            /\ nextRef' = nextRef + Len(dictionary)
            /\ trieOut' = [op |-> "initialize", threw |-> res.threw]
            /\ UNCHANGED <<cacheVars, appVars>>

\* TrieService.search(prefix, dictionaryId)
TrieSearch ==
    \E prefix \in TrieQueries, dictionaryId \in DictIds :
        /\ trieOut' = [op |-> "search", query |-> prefix, id |-> dictionaryId,
                       result |-> search(root, prefix, dictionaryId)]
        /\ UNCHANGED <<root, currentDictionaryId, trieIsInitialized, indexed, nextRef, cacheVars,
                       appVars>>

\* TrieService.fuzzySearch(query, dictionaryId, maxDistance)
TrieFuzzySearch ==
    \E query \in TrieQueries, dictionaryId \in DictIds, maxDistance \in MaxDistances :
        /\ trieOut' = [op |-> "fuzzySearch", query |-> query, id |-> dictionaryId,
                       maxDistance |-> maxDistance,
                       result |-> fuzzySearch(root, query, dictionaryId, maxDistance)]
        /\ UNCHANGED <<root, currentDictionaryId, trieIsInitialized, indexed, nextRef, cacheVars,
                       appVars>>

TrieNext == TrieInitialize \/ TrieSearch \/ TrieFuzzySearch


-----------------------------------------------------------------------------
(* Claims about the trie *)

\* C1 (prefix completeness): every entry indexed under source s is in
\* search(p, s) for every non-empty prefix p of its lowercased word.
PrefixCompleteness ==
    \A x \in indexed :
        \A k \in 1..Len(x.entry.word) :
            Includes(search(root, SubSeq(toLowerCase(x.entry.word), 1, k), x.id), x.entry)

\* C1 witness: a search for a proper prefix of an indexed mixed-case word
\* has returned that entry.
PrefixCompletenessWitness ==
    /\ trieOut.op = "search"
    /\ \E x \in indexed :
        /\ x.id = trieOut.id
        /\ x.entry.word # toLowerCase(x.entry.word)
        /\ Len(trieOut.query) < Len(x.entry.word)
        /\ toLowerCase(trieOut.query) = SubSeq(toLowerCase(x.entry.word), 1, Len(trieOut.query))
        /\ Includes(trieOut.result, x.entry)

\* the whitespace-separated tokens of a text: its maximal runs of other characters
TokensOf(text) ==
    { SubSeq(text, run[1], run[2]) :
        run \in { ij \in (1..Len(text)) \X (1..Len(text)) :
                    /\ ij[1] <= ij[2]
                    /\ \A k \in ij[1]..ij[2] : ~IsSpace(text[k])
                    /\ (ij[1] = 1 \/ IsSpace(text[ij[1] - 1]))
                    /\ (ij[2] = Len(text) \/ IsSpace(text[ij[2] + 1])) } }

\* the keys an entry is found by: its lowercased word and the tokens longer than
\* 2 characters of its lowercased definitions
KeysOf(entry) ==
    {toLowerCase(entry.word)} \cup
    UNION { UNION { { t \in TokensOf(toLowerCase(entry.meanings[m].definitions[d])) :
                        Len(t) > 2 } :
                    d \in 1..Len(entry.meanings[m].definitions) } :
            m \in 1..Len(entry.meanings) }

\* C19 (lookups are scoped and sound): search(p, s) returns only entries that
\* were passed to initialize under source s and that have a key (the lowercased
\* word, or a definition token longer than 2 characters) starting with the
\* lowercased p; it returns the empty list when the walk along p finds no child
\* for some character.
ScopedAndSound ==
    trieOut.op = "search" =>
        /\ \A i \in 1..Len(trieOut.result) :
              /\ [entry |-> trieOut.result[i], id |-> trieOut.id] \in indexed
              /\ \E key \in KeysOf(trieOut.result[i]) :
                    startsWith(key, toLowerCase(trieOut.query))
        /\ (toLowerCase(trieOut.query) \notin DOMAIN root => trieOut.result = <<>>)

\* C19 witness: a search returned an entry of its source found by a definition
\* token only, and left out an entry of the other source that has such a key too.
ScopedAndSoundWitness ==
    /\ trieOut.op = "search"
    /\ \E i \in 1..Len(trieOut.result) :
          ~startsWith(toLowerCase(trieOut.result[i].word), toLowerCase(trieOut.query))
    /\ \E x \in indexed :
          /\ x.id # trieOut.id
          /\ \E key \in KeysOf(x.entry) : startsWith(key, toLowerCase(trieOut.query))
          /\ ~Includes(trieOut.result, x.entry)

\* the unit-cost edit distance, by its defining recurrence on the first characters
RECURSIVE EditDistance(_, _)
EditDistance(a, b) ==
    IF a = <<>> THEN Len(b)
    ELSE IF b = <<>> THEN Len(a)
    ELSE Min3(EditDistance(Tail(a), b) + 1,
              EditDistance(a, Tail(b)) + 1,
              EditDistance(Tail(a), Tail(b)) + (IF Head(a) = Head(b) THEN 0 ELSE 1))

\* C2 (fuzzy bound): an entry whose lowercased word is within maxDistance of the
\* lowercased query is in fuzzySearch(query, s, maxDistance).
FuzzyBound ==
    \A x \in indexed, query \in TrieQueries, maxDistance \in MaxDistances :
        EditDistance(toLowerCase(x.entry.word), toLowerCase(query)) <= maxDistance
            => Includes(fuzzySearch(root, query, x.id, maxDistance), x.entry)

\* C2 witness: a fuzzySearch has returned an entry whose word is not the query
\* and lies deeper in the trie than maxDistance levels.
FuzzyBoundWitness ==
    /\ trieOut.op = "fuzzySearch"
    /\ \E x \in indexed :
        /\ x.id = trieOut.id
        /\ toLowerCase(x.entry.word) # toLowerCase(trieOut.query)
        /\ Len(x.entry.word) > trieOut.maxDistance
        /\ EditDistance(toLowerCase(x.entry.word), toLowerCase(trieOut.query))
              <= trieOut.maxDistance
        /\ Includes(trieOut.result, x.entry)

\* C24 (trie search returns a union): the list search(p, s) returns holds each
\* entry indexed under s with a key that starts with the lowercased p exactly
\* once, also when several keys of the entry start with it.
SearchReturnsUnion ==
    trieOut.op = "search" =>
        \A x \in indexed :
            (/\ x.id = trieOut.id
             /\ \E key \in KeysOf(x.entry) : startsWith(key, toLowerCase(trieOut.query)))
                => CountIn(trieOut.result, x.entry) = 1

\* C23 (fuzzy soundness): every entry returned by fuzzySearch(q, s, maxDistance)
\* is stored under source s at a terminal node whose path string has unit-cost
\* edit distance at most maxDistance to the lowercased q.
FuzzySoundness ==
    trieOut.op = "fuzzySearch" =>
        \A i \in 1..Len(trieOut.result) :
            \E path \in DOMAIN root :
                /\ root[path].isEndOfWord
                /\ Includes(root[path].entries[trieOut.id], trieOut.result[i])
                /\ EditDistance(path, toLowerCase(trieOut.query)) <= trieOut.maxDistance

\* C23 witness: a fuzzySearch with maxDistance 1 returned an entry whose word is
\* at distance 1 from the query, and left out an entry of the same source whose
\* keys are all further away.
FuzzySoundnessWitness ==
    /\ trieOut.op = "fuzzySearch"
    /\ trieOut.maxDistance = 1
    /\ \E i \in 1..Len(trieOut.result) :
          EditDistance(toLowerCase(trieOut.result[i].word), toLowerCase(trieOut.query)) = 1
    /\ \E x \in indexed :
          /\ x.id = trieOut.id
          /\ ~Includes(trieOut.result, x.entry)
          /\ \A key \in KeysOf(x.entry) :
                EditDistance(key, toLowerCase(trieOut.query)) > 1

-----------------------------------------------------------------------------
(* JSON *)

\* JSON.stringify(s).length of a string without escapes
JsonStringLength(s) == Len(s) + 2

RECURSIVE SumSeq(_)
SumSeq(ns) == IF ns = <<>> THEN 0 ELSE Head(ns) + SumSeq(Tail(ns))

\* length of "[" items joined by "," "]"
JsonArrayLength(itemLengths) ==
    2 + SumSeq(itemLengths) + (IF Len(itemLengths) > 1 THEN Len(itemLengths) - 1 ELSE 0)

JsonStringsLength(ss) == JsonArrayLength([i \in 1..Len(ss) |-> JsonStringLength(ss[i])])

\* {"partOfSpeech":..,"definitions":[..],"examples":[..]}
JsonMeaningLength(m) ==
    44 + JsonStringLength(m.partOfSpeech) + JsonStringsLength(m.definitions)
       + JsonStringsLength(m.examples)

\* {"word":..,"phonetic":..,"meanings":[..],"translation":..}; the identity of
\* the object is not part of its JSON
JsonEntryLength(e) ==
    48 + JsonStringLength(e.word) + JsonStringLength(e.phonetic)
       + JsonArrayLength([i \in 1..Len(e.meanings) |-> JsonMeaningLength(e.meanings[i])])
       + JsonStringLength(e.translation)

JsonDataLength(data) == JsonArrayLength([i \in 1..Len(data) |-> JsonEntryLength(data[i])])

\* what JSON.stringify keeps of a DictionaryEntry[]: everything but the identities
JsonOfData(data) ==
    [i \in 1..Len(data) |->
        [word |-> data[i].word, phonetic |-> data[i].phonetic,
         meanings |-> data[i].meanings, translation |-> data[i].translation]]

\* JSON.parse builds new objects: the i-th gets identity base + i
DataOfJson(json, base) ==
    [i \in 1..Len(json) |->
        [ref |-> base + i, word |-> json[i].word, phonetic |-> json[i].phonetic,
         meanings |-> json[i].meanings, translation |-> json[i].translation]]

\* JSON.stringify(entry) of a CacheEntry
JsonOfCacheEntry(entry) ==
    [json |-> "CacheEntry", data |-> JsonOfData(entry.data), timestamp |-> entry.timestamp,
     size |-> entry.size, lastAccessed |-> entry.lastAccessed]

\* JSON.parse(data) of a stored CacheEntry
CacheEntryOfJson(item, base) ==
    [data |-> DataOfJson(item.data, base), timestamp |-> item.timestamp,
     size |-> item.size, lastAccessed |-> item.lastAccessed]

-----------------------------------------------------------------------------
(* CacheService.  A cache state c is a record                              *)
(*   memoryCache  the Map, as the sequence of its <<key, entry>> pairs in  *)
(*                insertion order                                          *)
(*   diskCache    the Map, as a function on the keys it holds              *)
(*   totalSize    the counter                                              *)
(*   storage      AsyncStorage, as a function on the keys it holds         *)
(*   refs         object identities handed out so far                     *)
(* Every handler is given the clock value t of its Date.now() calls and,   *)
(* for each AsyncStorage call it makes, whether that call rejects.         *)
(***************************************************************************)

\* config.ttl (24 hours in the code), in clock ticks of the model
Ttl == 1
\* config.maxTotalSize, scaled to the sizes of the model's values
MaxTotalSize == 200
\* config.maxSize (1000 in the code), scaled to the keys of the model; no
\* method of CacheService reads it
MaxSize == 1

MapHas(m, k) == k \in DOMAIN m
MapSet(m, k, v) == (k :> v) @@ m
MapDelete(m, k) == [x \in DOMAIN m \ {k} |-> m[x]]

\* Map operations on the insertion-ordered memoryCache
MemIndex(mem, k) ==
    IF \E i \in 1..Len(mem) : mem[i][1] = k
    THEN CHOOSE i \in 1..Len(mem) : mem[i][1] = k
    ELSE 0
MemHas(mem, k) == MemIndex(mem, k) # 0
MemGet(mem, k) == mem[MemIndex(mem, k)][2]
MemSet(mem, k, v) ==
    IF MemHas(mem, k) THEN [mem EXCEPT ![MemIndex(mem, k)] = <<k, v>>]
    ELSE Append(mem, <<k, v>>)
MemDelete(mem, k) == SelectSeq(mem, LAMBDA p : p[1] # k)

calculateSize(data) == JsonDataLength(data)

\* a mutant of isExpired: an entry expires as soon as its age reaches the ttl
isExpiredAtTtl(entry, t) == t - entry.timestamp >= Ttl

\* a mutant of isExpired: the age is taken from the last access
isExpiredSinceAccess(entry, t) == t - entry.lastAccessed > Ttl

isExpired(entry, t) == t - entry.timestamp > Ttl

\* Array.prototype.sort by lastAccessed, oldest first (stable)
RECURSIVE InsertSorted(_, _)
InsertSorted(sorted, p) ==
    IF sorted = <<>> THEN <<p>>
    ELSE IF Head(sorted)[2].lastAccessed <= p[2].lastAccessed
         THEN <<Head(sorted)>> \o InsertSorted(Tail(sorted), p)
         ELSE <<p>> \o sorted
RECURSIVE SortByLastAccessed(_)
SortByLastAccessed(pairs) ==
    IF pairs = <<>> THEN <<>>
    ELSE InsertSorted(SortByLastAccessed(SubSeq(pairs, 1, Len(pairs) - 1)), pairs[Len(pairs)])

\* evictEntry(key); fails: the AsyncStorage.setItem of this call rejects
evictEntry(c, key, fails) ==
    IF ~MemHas(c.memoryCache, key) THEN c
    ELSE LET entry == MemGet(c.memoryCache, key)
         IN  [c EXCEPT !.totalSize = @ - entry.size,
                       !.memoryCache = MemDelete(@, key),
                       !.diskCache = MapSet(@, key, entry),
                       !.storage = IF fails THEN @
                                   ELSE MapSet(@, key, JsonOfCacheEntry(entry))]

\* the loop of cleanupCache over the sorted snapshot
RECURSIVE CleanupLoop(_, _, _)
CleanupLoop(c, entries, fails) ==
    IF c.totalSize > MaxTotalSize /\ entries # <<>>
    THEN CleanupLoop(evictEntry(c, Head(entries)[1], fails), Tail(entries), fails)
    ELSE c

cleanupCache(c, fails) == CleanupLoop(c, SortByLastAccessed(c.memoryCache), fails)

\* set(key, data) at time t.  failEvict, fail1, fail2: the setItem calls of the
\* evictions, of the try block and of the catch block reject.
\* Returns the cache and whether set threw 'Cache storage failed'.
CacheSetResult(c, key, data, t, failEvict, fail1, fail2) ==
    LET size  == calculateSize(data)
        c1    == IF c.totalSize + size > MaxTotalSize THEN cleanupCache(c, failEvict) ELSE c
        entry == [data |-> data, timestamp |-> t, size |-> size, lastAccessed |-> t]
        c2    == [c1 EXCEPT !.memoryCache = MemSet(@, key, entry),
                            !.totalSize = @ + size]
    IN  IF ~fail1
        THEN [cache |-> [c2 EXCEPT !.storage = MapSet(@, key, JsonOfCacheEntry(entry))],
              threw |-> FALSE]
        ELSE LET c3 == [c2 EXCEPT !.diskCache = MapSet(@, key, entry)]
             IN  IF ~fail2
                 THEN [cache |-> [c3 EXCEPT !.storage =
                                      MapSet(@, key, JsonOfCacheEntry(entry))],
                       threw |-> FALSE]
                 ELSE [cache |-> c3, threw |-> TRUE]

Null == [isNull |-> TRUE]
Value(data) == [isNull |-> FALSE, data |-> data]

\* getFromDisk(key): the entry read (or Null) and the cache
getFromDisk(c, key, failRead) ==
    IF ~failRead /\ MapHas(c.storage, key)
    THEN LET entry == CacheEntryOfJson(c.storage[key], c.refs)
         IN  [entry |-> Value(entry),
              cache |-> [c EXCEPT !.diskCache = MapSet(@, key, entry),
                                  !.refs = @ + Len(entry.data)]]
    ELSE [entry |-> Null, cache |-> c]

\* the entry object, touched at time t, in every Map that holds this object
Touch(entry, t) == [entry EXCEPT !.lastAccessed = t]

\* get(key) at time t: the value returned (or Null) and the cache
CacheGetResult(c, key, t, failRead) ==
    IF MemHas(c.memoryCache, key) /\ ~isExpired(MemGet(c.memoryCache, key), t)
    THEN LET memoryEntry == MemGet(c.memoryCache, key)
             shared == MapHas(c.diskCache, key) /\ c.diskCache[key] = memoryEntry
         IN  [result |-> Value(memoryEntry.data),
              cache |-> [c EXCEPT !.memoryCache = MemSet(@, key, Touch(memoryEntry, t)),
                                  !.diskCache = IF shared
                                                THEN MapSet(@, key, Touch(memoryEntry, t))
                                                ELSE @]]
    ELSE LET read == IF MapHas(c.diskCache, key)
                     THEN [entry |-> Value(c.diskCache[key]), cache |-> c]
                     ELSE getFromDisk(c, key, failRead)
         IN  IF ~read.entry.isNull /\ ~isExpired(read.entry.data, t)
             THEN LET diskEntry == Touch(read.entry.data, t)
                  IN  [result |-> Value(diskEntry.data),
                       cache |-> [read.cache EXCEPT
                                     !.memoryCache = MemSet(@, key, diskEntry),
                                     !.diskCache = MapSet(@, key, diskEntry),
                                     !.totalSize = @ + diskEntry.size]]
             ELSE [result |-> Null, cache |-> read.cache]

\* invalidate(key)
CacheInvalidateResult(c, key, failRemove) ==
    [c EXCEPT !.totalSize = IF MemHas(c.memoryCache, key)
                            THEN @ - MemGet(c.memoryCache, key).size ELSE @,
              !.memoryCache = MemDelete(@, key),
              !.diskCache = MapDelete(@, key),
              !.storage = IF failRemove THEN @ ELSE MapDelete(@, key)]

\* clear(): AsyncStorage.clear() removes every key of the store
CacheClearResult(c, failClear) ==
    [c EXCEPT !.memoryCache = <<>>, !.diskCache = <<>>, !.totalSize = 0,
              !.storage = IF failClear THEN @ ELSE <<>>]

-----------------------------------------------------------------------------
(* The cache under its callers *)

\* a key is a string: a sequence whose first element is a literal of the code
\* and whose other elements, if any, are the characters appended to it
CacheKeys == {<<"yahoo_dictionary_data">>, <<"cambridge_dictionary_data">>}

\* the values the callers cache: lists of normalized entries
CacheValues ==
    { WithRefs(<<CHOOSE x \in TrieShapes : x.word = Str2("a", "B")>>, 100),
      WithRefs(<<CHOOSE x \in TrieShapes : x.word = Str2("a", "B"),
                 CHOOSE x \in TrieShapes : x.word = Str3("a", "B", "b")>>, 200) }

\* the clock is followed until an entry made at time 0 has expired
MaxTime == Ttl + 1

CacheState ==
    [memoryCache |-> memoryCache, diskCache |-> diskCache, totalSize |-> totalSize,
     storage |-> storage, refs |-> nextRef]

CacheBecomes(c) ==
    /\ memoryCache' = c.memoryCache
    /\ diskCache' = c.diskCache
    /\ totalSize' = c.totalSize
    /\ storage' = c.storage
    /\ nextRef' = c.refs

\* the call before, when it was a set: its key, value, time and outcome, and
\* whether every AsyncStorage call it made rejected
Before == IF cacheOut.op = "set" THEN [x \in DOMAIN cacheOut \ {"prev"} |-> cacheOut[x]]
          ELSE NoCall

\* CacheService.set(key, data)
CacheSet ==
    /\ cacheOps < MaxCacheOps
    /\ \E key \in CacheKeys, data \in CacheValues, failEvict \in BOOLEAN, fail1 \in BOOLEAN :
         \E fail2 \in (IF fail1 THEN BOOLEAN ELSE {FALSE}) :
            LET res == CacheSetResult(CacheState, key, data, now, failEvict, fail1, fail2)
            IN  /\ CacheBecomes(res.cache)
                /\ lastSet' = MapSet(lastSet, key, now)
                /\ removed' = removed \ {key}
                /\ cacheOut' = [op |-> "set", key |-> key, data |-> data, time |-> now,
                                threw |-> res.threw,
                                storeFails |-> failEvict /\ fail1 /\ fail2]
    /\ cacheOps' = cacheOps + 1
    /\ UNCHANGED <<now, trieVars, appVars>>

\* CacheService.get(key)
CacheGet ==
    /\ cacheOps < MaxCacheOps
    /\ \E key \in CacheKeys, failRead \in BOOLEAN :
            LET res == CacheGetResult(CacheState, key, now, failRead)
            IN  /\ CacheBecomes(res.cache)
                /\ cacheOut' = [op |-> "get", key |-> key, result |-> res.result,
                                time |-> now, storeFails |-> failRead, prev |-> Before]
    /\ cacheOps' = cacheOps + 1
    /\ UNCHANGED <<now, lastSet, removed, trieVars, appVars>>

\* CacheService.invalidate(key)
CacheInvalidate ==
    /\ cacheOps < MaxCacheOps
    /\ \E key \in CacheKeys, failRemove \in BOOLEAN :
            /\ CacheBecomes(CacheInvalidateResult(CacheState, key, failRemove))
            /\ cacheOut' = [op |-> "invalidate", key |-> key]
            /\ removed' = removed \cup {key}
    /\ cacheOps' = cacheOps + 1
    /\ UNCHANGED <<now, lastSet, trieVars, appVars>>

\* CacheService.clear()
CacheClear ==
    /\ cacheOps < MaxCacheOps
    /\ \E failClear \in BOOLEAN :
            /\ CacheBecomes(CacheClearResult(CacheState, failClear))
            /\ cacheOut' = [op |-> "clear"]
            /\ removed' = CacheKeys
    /\ cacheOps' = cacheOps + 1
    /\ UNCHANGED <<now, lastSet, trieVars, appVars>>

\* time passes between two calls
Tick ==
    /\ now < MaxTime
    /\ now' = now + 1
    /\ UNCHANGED <<memoryCache, diskCache, totalSize, storage, lastSet, removed, cacheOps,
                   cacheOut,
                   nextRef, trieVars, appVars>>

CacheNext == CacheSet \/ CacheGet \/ CacheInvalidate \/ CacheClear \/ Tick

\* CacheService calls over a behaviour in which AsyncStorage works
MaxStoredOps == 5

\* CacheService.set(key, data) while every AsyncStorage call succeeds
CacheSetStored ==
    /\ cacheOps < MaxStoredOps
    /\ \E key \in CacheKeys, data \in CacheValues :
            LET res == CacheSetResult(CacheState, key, data, now, FALSE, FALSE, FALSE)
            IN  /\ CacheBecomes(res.cache)
                /\ lastSet' = MapSet(lastSet, key, now)
                /\ removed' = removed \ {key}
                /\ cacheOut' = [op |-> "set", key |-> key, data |-> data, time |-> now,
                                threw |-> res.threw, storeFails |-> FALSE]
    /\ cacheOps' = cacheOps + 1
    /\ UNCHANGED <<now, trieVars, appVars>>

\* CacheService.get(key) while every AsyncStorage call succeeds
CacheGetStored ==
    /\ cacheOps < MaxStoredOps
    /\ \E key \in CacheKeys :
            LET res == CacheGetResult(CacheState, key, now, FALSE)
            IN  /\ CacheBecomes(res.cache)
                /\ cacheOut' = [op |-> "get", key |-> key, result |-> res.result,
                                time |-> now, storeFails |-> FALSE, prev |-> Before]
    /\ cacheOps' = cacheOps + 1
    /\ UNCHANGED <<now, lastSet, removed, trieVars, appVars>>

StoredNext == CacheSetStored \/ CacheGetStored \/ Tick


-----------------------------------------------------------------------------
(* Claims about the cache *)

\* C3 (cache round-trip): a get(k) that directly follows set(k, v), before the
\* entry's ttl has run out, returns v (the very object), whether or not the
\* set threw.
CacheRoundTrip ==
    (/\ cacheOut.op = "get"
     /\ cacheOut.prev.op = "set"
     /\ cacheOut.prev.key = cacheOut.key
     /\ cacheOut.time - cacheOut.prev.time <= Ttl)
        => cacheOut.result = Value(cacheOut.prev.data)

\* C3 witness: such a get after a set that had to evict another key and whose
\* writes to the store were rejected.
CacheRoundTripWitness ==
    /\ cacheOut.op = "get"
    /\ cacheOut.prev.op = "set"
    /\ cacheOut.prev.key = cacheOut.key
    /\ cacheOut.prev.threw
    /\ cacheOut.time > cacheOut.prev.time
    /\ \E k \in CacheKeys : k # cacheOut.key /\ MapHas(diskCache, k)
    /\ cacheOut.result = Value(cacheOut.prev.data)

\* C4 (cache expiry): a get(k) made more than ttl after the latest set(k, _)
\* returns null, wherever the entry still is.
CacheExpiry ==
    (/\ cacheOut.op = "get"
     /\ MapHas(lastSet, cacheOut.key)
     /\ cacheOut.time - lastSet[cacheOut.key] > Ttl)
        => cacheOut.result = Null

\* C4 witness: such a get of an entry that had been evicted to the disk map and
\* the store, and is still held there.
CacheExpiryWitness ==
    /\ cacheOut.op = "get"
    /\ MapHas(lastSet, cacheOut.key)
    /\ cacheOut.time - lastSet[cacheOut.key] > Ttl
    /\ ~MemHas(memoryCache, cacheOut.key)
    /\ MapHas(diskCache, cacheOut.key)
    /\ MapHas(storage, cacheOut.key)
    /\ cacheOut.result = Null

\* the total serialized size of the entries held by the fast tier
RECURSIVE FastTierSize(_)
FastTierSize(mem) ==
    IF mem = <<>> THEN 0
    ELSE calculateSize(Head(mem)[2].data) + FastTierSize(Tail(mem))

\* C12 (cache size bound): after a set(k, v) of a value whose own size is at most
\* maxTotalSize, the total serialized size of the fast-tier entries is at most
\* maxTotalSize.
CacheSizeBound ==
    (cacheOut.op = "set" /\ calculateSize(cacheOut.data) <= MaxTotalSize)
        => FastTierSize(memoryCache) <= MaxTotalSize

\* C13 (cache entry-count bound): after any sequence of set/get/invalidate/clear
\* calls, the cache holds at most maxSize entries.
CacheCountBound == Len(memoryCache) <= MaxSize

\* C14 (persistent-tier failures): when every call of the persistent store
\* rejects, set(k, v) completes without raising, and a get(k) that follows it
\* within the ttl returns v.
PersistentFailuresTolerated ==
    /\ (cacheOut.op = "set" /\ cacheOut.storeFails) => ~cacheOut.threw
    /\ (/\ cacheOut.op = "get" /\ cacheOut.storeFails
        /\ cacheOut.prev.op = "set" /\ cacheOut.prev.storeFails
        /\ cacheOut.prev.key = cacheOut.key
        /\ cacheOut.time - cacheOut.prev.time <= Ttl)
            => cacheOut.result = Value(cacheOut.prev.data)

\* C15 (removed entries stay absent): a get(k) made after invalidate(k) or
\* clear(), and before the next set(k, _), returns null.
RemovedStaysAbsent ==
    (cacheOut.op = "get" /\ cacheOut.key \in removed) => cacheOut.result = Null

\* the sum of the size fields of the entries held by the fast tier
RECURSIVE SumOfSizes(_)
SumOfSizes(mem) == IF mem = <<>> THEN 0 ELSE Head(mem)[2].size + SumOfSizes(Tail(mem))

\* C26 (size accounting): after any sequence of set, get, invalidate and clear
\* calls, totalSize is the sum of the size fields of the entries in the fast
\* tier, and it is never negative.
SizeAccounting == totalSize = SumOfSizes(memoryCache) /\ totalSize >= 0

\* the entry of key k was moved out of the fast tier by evictEntry and has not
\* expired: evictEntry alone leaves a key in the disk map and not in the
\* memory map with an entry that is still fresh
EvictedUnexpired(k) ==
    /\ ~MemHas(memoryCache, k)
    /\ MapHas(diskCache, k)
    /\ ~isExpired(diskCache[k], now)

\* this step is a get(k)
GetOf(k) == cacheOps' = cacheOps + 1 /\ cacheOut'.op = "get" /\ cacheOut'.key = k

\* C25 (persistent-tier fallback): a get(k) of an unexpired entry that was
\* evicted from the fast tier returns the entry's value and puts the entry back
\* into the fast tier, so that the following get(k) is a fast-tier hit; when the
\* fast tier was within the size budget and the entry fits the budget, the fast
\* tier is within the budget afterwards.
PersistentTierFallback ==
    [][\A k \in CacheKeys :
         (GetOf(k) /\ EvictedUnexpired(k)) =>
            /\ cacheOut'.result = Value(diskCache[k].data)
            /\ MemHas(memoryCache', k)
            /\ ~isExpired(MemGet(memoryCache', k), now')
            /\ (/\ FastTierSize(memoryCache) <= MaxTotalSize
                /\ diskCache[k].size <= MaxTotalSize)
                  => FastTierSize(memoryCache') <= MaxTotalSize]_vars

-----------------------------------------------------------------------------
(* Search history and recent searches, persisted in AsyncStorage *)

MAX_HISTORY_ITEMS == 20
MAX_RECENT_SEARCHES == 20

SEARCH_HISTORY_KEY == <<"@search_history">>
RECENT_SEARCHES_KEY == <<"@dictionary_recent_searches">>

\* String.prototype.trim
RECURSIVE TrimStart(_)
TrimStart(s) == IF s # <<>> /\ IsSpace(Head(s)) THEN TrimStart(Tail(s)) ELSE s
RECURSIVE TrimEnd(_)
TrimEnd(s) ==
    IF s # <<>> /\ IsSpace(s[Len(s)]) THEN TrimEnd(SubSeq(s, 1, Len(s) - 1)) ELSE s
trim(s) == TrimEnd(TrimStart(s))

\* SearchService.normalizeText
normalizeText(text) == trim(toLowerCase(text))

\* Array.prototype.slice(0, n)
SliceFromStart(s, n) == SubSeq(s, 1, Min2(Len(s), n))

\* JSON.stringify / JSON.parse of an array of strings or of plain entries
JsonOfList(list) == [json |-> "array", items |-> list]
ListOfJson(item) == item.items

\* getSearchHistory() / getRecentSearches(): [] when nothing is stored or the read rejects
StoredList(store, key, failRead) ==
    IF ~failRead /\ MapHas(store, key) THEN ListOfJson(store[key]) ELSE <<>>

\* a mutant of OtherItems: the earlier occurrence is kept
OtherItemsKept(history, item) == history

\* history.filter(item => item !== query)
OtherItems(history, item) == SelectSeq(history, LAMBDA x : x # item)

\* the three implementations of the history in the code
HistoryImpls == {"searchService", "searchServiceWithTrie", "storageService"}

HistoryKey(impl) ==
    IF impl = "storageService" THEN RECENT_SEARCHES_KEY ELSE SEARCH_HISTORY_KEY

HistoryMax(impl) ==
    IF impl = "storageService" THEN MAX_RECENT_SEARCHES ELSE MAX_HISTORY_ITEMS

\* what an addition for this query text stores: the normalized query
\* (searchService.ts), the query as typed (the trie-based SearchService), or the
\* selected entry, known by its word (StorageService)
HistoryItem(impl, text) ==
    IF impl = "searchService" THEN normalizeText(text)
    ELSE IF impl = "storageService" THEN [word |-> text]
    ELSE text

\* addToSearchHistory(query) / addToRecentSearches(entry): the store afterwards.
\* A rejected write leaves the store as it was (the error is logged or rethrown).
addToSearchHistory(store, impl, text, failRead, failWrite) ==
    LET history    == StoredList(store, HistoryKey(impl), failRead)
        item       == HistoryItem(impl, text)
        newHistory == SliceFromStart(<<item>> \o OtherItems(history, item), HistoryMax(impl))
    IN  IF failWrite THEN store
        ELSE MapSet(store, HistoryKey(impl), JsonOfList(newHistory))

\* additions that are not a first-time query on a working store, per behaviour
MaxDisturbances == 1

\* the distinct queries of a behaviour
MaxQueries == MAX_HISTORY_ITEMS + 5

Digits == <<"0", "1", "2", "3", "4", "5", "6", "7", "8", "9">>

\* the i-th distinct query text
FreshQuery(i) == <<"q", Digits[(i \div 10) + 1], Digits[(i % 10) + 1]>>

\* the same query typed in capitals, with a trailing blank
Shouted(text) ==
    LET t == normalizeText(text) IN <<"Q">> \o SubSeq(t, 2, Len(t)) \o <<" ">>

\* the query text behind a stored item
TextOfItem(impl, item) == IF impl = "storageService" THEN item.word ELSE item

PersistedHistory == StoredList(storage, HistoryKey(historyImpl), FALSE)

HistoryAdd(text, failRead, failWrite) ==
    /\ storage' = addToSearchHistory(storage, historyImpl, text, failRead, failWrite)
    /\ adds' = Append(adds, HistoryItem(historyImpl, text))
    /\ historyReliable' = (historyReliable /\ ~failRead /\ ~failWrite)
    /\ UNCHANGED <<historyImpl, pendingAdds, trieVars, nextRef, memoryCache, diskCache,
                   totalSize, now, lastSet, removed, cacheOps, cacheOut, screenVars, scoreVars,
                   serviceVars>>

\* a query never searched before
HistoryAddFresh ==
    /\ freshCount < MaxQueries
    /\ freshCount' = freshCount + 1
    /\ disturbances' = disturbances
    /\ HistoryAdd(FreshQuery(freshCount + 1), FALSE, FALSE)

\* an item of the history is searched again: the newest as typed before, or
\* the oldest in capitals
HistoryReAdd ==
    /\ disturbances < MaxDisturbances
    /\ PersistedHistory # <<>>
    /\ disturbances' = disturbances + 1
    /\ freshCount' = freshCount
    /\ \E shout \in BOOLEAN :
          LET pos  == IF shout THEN Len(PersistedHistory) ELSE 1
              text == TextOfItem(historyImpl, PersistedHistory[pos])
          IN  HistoryAdd(IF shout THEN Shouted(text) ELSE text, FALSE, FALSE)

\* an addition during which AsyncStorage rejects the read, the write or both
HistoryAddFailing ==
    /\ disturbances < MaxDisturbances
    /\ freshCount < MaxQueries
    /\ disturbances' = disturbances + 1
    /\ freshCount' = freshCount + 1
    /\ \E failRead \in BOOLEAN, failWrite \in BOOLEAN :
          /\ failRead \/ failWrite
          /\ HistoryAdd(FreshQuery(freshCount + 1), failRead, failWrite)

HistoryNext == HistoryAddFresh \/ HistoryReAdd \/ HistoryAddFailing

\* the distinct queries whose additions may overlap
MaxRaceQueries == 3

\* addToSearchHistory(query) / addToRecentSearches(entry) up to the end of its
\* await of getItem: the addition holds the list it has read
BeginHistoryAdd ==
    /\ \E i \in 1..MaxRaceQueries :
          LET text == FreshQuery(i)
          IN  /\ ~Includes(adds, HistoryItem(historyImpl, text))
              /\ adds' = Append(adds, HistoryItem(historyImpl, text))
              /\ pendingAdds' =
                    Append(pendingAdds,
                           [text |-> text,
                            history |-> StoredList(storage, HistoryKey(historyImpl), FALSE)])
    /\ UNCHANGED <<historyImpl, historyReliable, freshCount, disturbances, trieVars, nextRef,
                   cacheVars, screenVars, scoreVars, serviceVars>>

\* the same addition from there on: the list it has read, with its item put in
\* front, is handed to setItem
CompleteHistoryAdd ==
    /\ \E k \in 1..Len(pendingAdds) :
          LET item       == HistoryItem(historyImpl, pendingAdds[k].text)
              newHistory == SliceFromStart(<<item>> \o OtherItems(pendingAdds[k].history, item),
                                           HistoryMax(historyImpl))
          IN  /\ storage' = MapSet(storage, HistoryKey(historyImpl), JsonOfList(newHistory))
              /\ pendingAdds' = SubSeq(pendingAdds, 1, k - 1)
                                  \o SubSeq(pendingAdds, k + 1, Len(pendingAdds))
    /\ UNCHANGED <<historyImpl, adds, historyReliable, freshCount, disturbances, trieVars,
                   nextRef, memoryCache, diskCache, totalSize, now, lastSet, removed, cacheOps,
                   cacheOut, screenVars, scoreVars, serviceVars>>

RaceNext == BeginHistoryAdd \/ CompleteHistoryAdd

FAVORITES_KEY == <<"@dictionary_favorites">>

\* StorageService.addToFavorites(entry): the store afterwards; nothing is
\* written when an entry with the word is there already
addToFavorites(store, entry, failRead, failWrite) ==
    LET favorites == StoredList(store, FAVORITES_KEY, failRead)
    IN  IF (\E i \in 1..Len(favorites) : favorites[i].word = entry.word) \/ failWrite
        THEN store
        ELSE MapSet(store, FAVORITES_KEY, JsonOfList(<<entry>> \o favorites))

\* the words of the entries marked as favorites
FavoriteWords == {Str2("a", "b"), Str2("b", "b")}

\* an entry is added to the favorites
AddToFavorites ==
    /\ \E word \in FavoriteWords, failRead \in BOOLEAN, failWrite \in BOOLEAN :
          storage' = addToFavorites(storage, [word |-> word], failRead, failWrite)
    /\ UNCHANGED <<historyVars, trieVars, nextRef, memoryCache, diskCache, totalSize,
                   now, lastSet, removed, cacheOps, cacheOut, screenVars, scoreVars, serviceVars>>

\* ImageService.clearImageCache(): await this.cacheService.clear()
clearImageCache ==
    /\ cacheOps < MaxCacheOps
    /\ \E failClear \in BOOLEAN :
            /\ CacheBecomes(CacheClearResult(CacheState, failClear))
            /\ cacheOut' = [op |-> "clear", by |-> "ImageService"]
            /\ removed' = CacheKeys
    /\ cacheOps' = cacheOps + 1
    /\ UNCHANGED <<now, lastSet, trieVars, appVars>>

\* the data of the application in the store shared with the cache is written,
\* and the cache is cleared
StoreNext == HistoryAddFresh \/ AddToFavorites \/ CacheClear \/ clearImageCache

-----------------------------------------------------------------------------
(* Claims about the history *)

Items(list) == {list[i] : i \in 1..Len(list)}

\* the position of the latest addition of an item
LastAdd(x) == CHOOSE k \in 1..Len(adds) : adds[k] = x /\ \A m \in (k + 1)..Len(adds) : adds[m] # x

\* C5 (history cap and ordering): the persisted history never holds more than
\* MAX items nor an item twice; while the store works it holds the MAX most
\* recently added distinct items, the more recently added first (so MAX + 5
\* distinct additions leave exactly MAX items, and adding an item again moves
\* it to the front without changing the length).
HistoryCapAndOrder ==
    LET h == PersistedHistory
        n == Len(h)
    IN  /\ n <= HistoryMax(historyImpl)
        /\ \A i, j \in 1..n : i # j => h[i] # h[j]
        /\ historyReliable =>
             /\ Items(h) \subseteq Items(adds)
             /\ \A i, j \in 1..n : i < j => LastAdd(h[i]) > LastAdd(h[j])
             /\ \A x \in Items(adds) \ Items(h) : \A i \in 1..n : LastAdd(x) < LastAdd(h[i])
             /\ n = Min2(HistoryMax(historyImpl), Cardinality(Items(adds)))

\* C5 witness: MAX + 5 distinct queries were added, one of them twice; the
\* history is full and starts with the item added last, which was added before.
HistoryCapAndOrderWitness ==
    /\ historyReliable
    /\ Cardinality(Items(adds)) = MaxQueries
    /\ Len(adds) > MaxQueries
    /\ Len(PersistedHistory) = HistoryMax(historyImpl)
    /\ PersistedHistory[1] = adds[Len(adds)]
    /\ \E k \in 1..(Len(adds) - 1) : adds[k] = adds[Len(adds)]

\* C29 (no lost history update): once every addition has completed, the
\* persisted history holds the query of each of them, also when additions for
\* distinct queries overlapped (fewer than MAX items were added).
NoLostHistoryUpdate ==
    (pendingAdds = <<>> /\ Len(adds) <= HistoryMax(historyImpl))
        => Items(adds) \subseteq Items(PersistedHistory)

\* the keys under which the application persists data that is not cached data
AppDataKeys == {SEARCH_HISTORY_KEY, RECENT_SEARCHES_KEY, FAVORITES_KEY}

\* this step is a clear() of the cache, called directly or by clearImageCache
CacheCleared == cacheOps' = cacheOps + 1 /\ cacheOut'.op = "clear"

\* C27 (clear removes cache entries only): clear(), also when clearImageCache
\* calls it, leaves the persisted search history, recent searches and favorites
\* as they are.
ClearKeepsAppData ==
    [][CacheCleared =>
          \A k \in AppDataKeys :
              MapHas(storage, k) => (MapHas(storage', k) /\ storage'[k] = storage[k])]_vars

-----------------------------------------------------------------------------
(* Match scores *)

\* the text as a scorer compares it: lowercased, and trimmed by the scorers
\* that go through normalizeText
Normalized(text, trims) == IF trims THEN normalizeText(text) ELSE toLowerCase(text)

\* how many of the strings contain q once normalized
HitCount(strings, q, trims) ==
    Cardinality({i \in 1..Len(strings) : includes(Normalized(strings[i], trims), q)})

DefinitionHits(entry, q, trims) ==
    SumSeq([m \in 1..Len(entry.meanings) |-> HitCount(entry.meanings[m].definitions, q, trims)])

ExampleHits(entry, q, trims) ==
    SumSeq([m \in 1..Len(entry.meanings) |-> HitCount(entry.meanings[m].examples, q, trims)])

\* entry.translation && normalized translation contains q
TranslationHit(entry, q, trims) ==
    entry.translation # <<>> /\ includes(Normalized(entry.translation, trims), q)

\* SearchService.calculateMatchScore: everything goes through normalizeText
calculateMatchScore(entry, query) ==
    LET normalizedQuery == normalizeText(query)
        word == normalizeText(entry.word)
    IN  (IF word = normalizedQuery THEN 100
         ELSE IF startsWith(word, normalizedQuery) THEN 80
         ELSE IF includes(word, normalizedQuery) THEN 60
         ELSE 0)
        + 20 * DefinitionHits(entry, normalizedQuery, TRUE)
        + 10 * ExampleHits(entry, normalizedQuery, TRUE)
        + (IF TranslationHit(entry, normalizedQuery, TRUE) THEN 5 ELSE 0)

\* YahooDictionaryService.calculateMatchScore (the Cambridge and Voicetube
\* services score the same way): the query is trimmed, the entry's texts are not
sourceCalculateMatchScore(entry, query) ==
    LET normalizedQuery == trim(toLowerCase(query))
        word == toLowerCase(entry.word)
    IN  (IF word = normalizedQuery THEN 1000
         ELSE IF startsWith(word, normalizedQuery) THEN 80
         ELSE IF includes(word, normalizedQuery) THEN 60
         ELSE 0)
        + 20 * DefinitionHits(entry, normalizedQuery, FALSE)
        + 10 * ExampleHits(entry, normalizedQuery, FALSE)
        + (IF TranslationHit(entry, normalizedQuery, FALSE) THEN 5 ELSE 0)

\* calculateMatchScore of the SearchService that searches through the trie
trieCalculateMatchScore(entry, query) ==
    LET normalizedQuery == normalizeText(query)
        word == normalizeText(entry.word)
    IN  (IF word = normalizedQuery THEN 1000
         ELSE IF startsWith(word, normalizedQuery) THEN 80
         ELSE IF includes(word, normalizedQuery) THEN 60
         ELSE 0)
        + 20 * DefinitionHits(entry, normalizedQuery, TRUE)
        + 10 * ExampleHits(entry, normalizedQuery, TRUE)
        + (IF TranslationHit(entry, normalizedQuery, TRUE) THEN 5 ELSE 0)

\* SearchScreen's calculateRelevanceScore: nothing is trimmed
calculateRelevanceScore(entry, searchQuery) ==
    LET q == toLowerCase(searchQuery)
        word == toLowerCase(entry.word)
    IN  (IF word = q THEN 1000
         ELSE IF startsWith(word, q) THEN 500
         ELSE IF includes(word, q) THEN 250
         ELSE 0)
        + 100 * DefinitionHits(entry, q, FALSE)
        + 50 * ExampleHits(entry, q, FALSE)
        + (IF TranslationHit(entry, q, FALSE) THEN 150 ELSE 0)

Scorers == {"SearchService", "YahooDictionaryService", "SearchScreen"}

ScoreBy(scorer, entry, q) ==
    IF scorer = "SearchService" THEN calculateMatchScore(entry, q)
    ELSE IF scorer = "YahooDictionaryService" THEN sourceCalculateMatchScore(entry, q)
    ELSE calculateRelevanceScore(entry, q)

\* a mutant of InsertByScore: the comparator is a.score - b.score
InsertByScoreAscending(sorted, item) ==
    LET k == Cardinality({i \in 1..Len(sorted) : sorted[i].score <= item.score})
    IN  SubSeq(sorted, 1, k) \o <<item>> \o SubSeq(sorted, k + 1, Len(sorted))

\* a mutant of InsertByScore: an item is put before the items of its own score
InsertByScoreBeforeTies(sorted, item) ==
    LET k == Cardinality({i \in 1..Len(sorted) : sorted[i].score > item.score})
    IN  SubSeq(sorted, 1, k) \o <<item>> \o SubSeq(sorted, k + 1, Len(sorted))

\* Array.prototype.sort((a, b) => b.score - a.score), which is stable
InsertByScore(sorted, item) ==
    LET k == Cardinality({i \in 1..Len(sorted) : sorted[i].score >= item.score})
    IN  SubSeq(sorted, 1, k) \o <<item>> \o SubSeq(sorted, k + 1, Len(sorted))

RECURSIVE SortByScore(_)
SortByScore(items) ==
    IF items = <<>> THEN <<>>
    ELSE InsertByScore(SortByScore(SubSeq(items, 1, Len(items) - 1)), items[Len(items)])

\* the definitions one scored entry has at most
MaxDefinitions == 5

\* the entries that get scored: a word, k definitions naming "Ab", an example
\* and a translation that name it or are missing
ScoredEntries ==
    { [word |-> w,
       meanings |-> <<[partOfSpeech |-> "word",
                       definitions |-> [i \in 1..k |-> <<"a", " ", "A", "b">>],
                       examples |-> ex]>>,
       phonetic |-> <<>>, translation |-> tr] :
      w \in {Str2("A", "b"), Str2("b", "b")}, k \in 0..MaxDefinitions,
      ex \in {<<>>, <<Str3("a", "b", "b")>>}, tr \in {<<>>, Str2("a", "b")} }

ScoredQueries == {Str2("a", "B"), <<" ", "a", "b", " ">>}

\* the two entries are scored for one query by one of the scorers
ScoreEntries ==
    /\ \E scorer \in Scorers, q \in ScoredQueries :
          scoreOut' = [op |-> "scored", scorer |-> scorer, q |-> q,
                       a |-> scoredPair[1], b |-> scoredPair[2],
                       scoreA |-> ScoreBy(scorer, scoredPair[1], q),
                       scoreB |-> ScoreBy(scorer, scoredPair[2], q)]
    /\ UNCHANGED <<scoredPair, trieVars, nextRef, cacheVars, historyVars, screenVars,
                   serviceVars>>

ScoreInit == scoreOut = NoCall

\* an entry without a word or a text
NoEntry ==
    [word |-> <<>>,
     meanings |-> <<[partOfSpeech |-> "word", definitions |-> <<>>, examples |-> <<>>]>>,
     phonetic |-> <<>>, translation |-> <<>>]

ScoreNext == ScoreEntries

-----------------------------------------------------------------------------
(* SearchScreen *)

SourceIds == <<"GPT", "Voicetube", "Yahoo", "Cambridge">>

\* { ...e, _source: source }
Tagged(e, source) == [source |-> source, entry |-> e]

tagSource(entries, source) == [i \in 1..Len(entries) |-> Tagged(entries[i], source)]

\* Array.prototype.find: the position of the first entry whose lowercased word
\* is the lowercased query, 0 for undefined
FindExact(entries, lowerQuery) ==
    LET hits == {i \in 1..Len(entries) : toLowerCase(entries[i].word) = lowerQuery}
    IN  IF hits = {} THEN 0 ELSE CHOOSE i \in hits : \A j \in hits : i <= j

\* `${e._source}::${e.word.toLowerCase()}`
ResultKey(t) == <<t.source, toLowerCase(t.entry.word)>>

\* a mutant of NonExactMatches: nothing is removed
NonExactUnfiltered(allResults, exactMatches) == allResults

\* allResults.filter(e => !shownKeys.has(key of e))
NonExactMatches(allResults, exactMatches) ==
    LET shownKeys == {ResultKey(exactMatches[i]) : i \in 1..Len(exactMatches)}
    IN  SelectSeq(allResults, LAMBDA t : ResultKey(t) \notin shownKeys)

\* the list handleSearch builds from what the four searches returned
MergeResults(text, found) ==
    LET lowerQuery == toLowerCase(text)
        exactOf(s) == LET k == FindExact(found[s], lowerQuery)
                      IN  IF k = 0 THEN <<>> ELSE <<Tagged(found[s][k], SourceIds[s])>>
        exactMatches == exactOf(1) \o exactOf(2) \o exactOf(3) \o exactOf(4)
        allResults == tagSource(found[1], SourceIds[1]) \o tagSource(found[2], SourceIds[2])
                      \o tagSource(found[3], SourceIds[3]) \o tagSource(found[4], SourceIds[4])
        nonExactMatches == NonExactMatches(allResults, exactMatches)
        scored == [i \in 1..Len(nonExactMatches) |->
                     [entry |-> nonExactMatches[i],
                      score |-> calculateRelevanceScore(nonExactMatches[i].entry, text)]]
        sorted == SortByScore(scored)
        sortedNonExact == [i \in 1..Len(sorted) |-> sorted[i].entry]
    IN  [exactMatches |-> exactMatches, sortedNonExact |-> sortedNonExact]

\* the results of the four searches together, at most
MaxResults == 3

\* the entries the sources return
ScreenEntries ==
    { [word |-> Str2("A", "b"),
       meanings |-> <<[partOfSpeech |-> "word",
                       definitions |-> <<Str3("a", "b", "b")>>, examples |-> <<>>]>>,
       phonetic |-> <<>>, translation |-> <<>>],
      [word |-> Str2("a", "b"),
       meanings |-> <<[partOfSpeech |-> "word", definitions |-> <<>>, examples |-> <<>>]>>,
       phonetic |-> <<>>, translation |-> <<>>],
      [word |-> Str3("a", "b", "b"),
       meanings |-> <<[partOfSpeech |-> "word", definitions |-> <<>>, examples |-> <<>>]>>,
       phonetic |-> <<>>, translation |-> <<>>] }

\* the texts typed into the search box
ScreenTexts == {<<"a">>, Str2("a", "B"), Str3("a", "B", "b"), Str3("a", "b", " ")}

\* what the four sources may hold: the results listed source by source
SourcesReturn ==
    { pairs \in SeqsUpTo((1..4) \X ScreenEntries, MaxResults) :
        \A i, j \in 1..Len(pairs) : i < j => pairs[i][1] <= pairs[j][1] }

\* what source s returned, out of a list of (source, entry) pairs
ReturnedBy(pairs, s) ==
    LET own == SelectSeq(pairs, LAMBDA p : p[1] = s)
    IN  [i \in 1..Len(own) |-> own[i][2]]

ScreenInit ==
    /\ screenQuery = <<>>
    /\ screenResults = <<>>
    /\ showRecent = TRUE
    /\ screenOut = NoCall
    /\ inFlight = <<>>

\* the source whose search rejects: none (0), GPT or Yahoo
FailingSources == {0, 1, 3}

\* handleSearch(text); the four searches return found[1..4], or the search of
\* source `failed` rejects, 0 standing for none
\* (a source returns what it holds whatever the text: the merge has to cope)
handleSearch ==
    /\ \E text \in ScreenTexts, failed \in FailingSources :
          LET found  == [s \in 1..4 |-> ReturnedBy(sourcesReturn, s)]
              merged == MergeResults(text, found)
          IN  /\ screenQuery' = text
              /\ IF Len(text) < 2
                 THEN /\ screenResults' = <<>>
                      /\ showRecent' = TRUE
                      /\ screenOut' = [op |-> "short", text |-> text]
                 ELSE /\ showRecent' = FALSE
                      /\ IF failed # 0
                         THEN /\ screenResults' = screenResults
                              /\ screenOut' = [op |-> "rejected", text |-> text,
                                               found |-> found, failed |-> failed]
                         ELSE /\ screenResults' = merged.exactMatches \o merged.sortedNonExact
                              /\ screenOut' = [op |-> "merged", text |-> text, found |-> found,
                                               exactMatches |-> merged.exactMatches,
                                               sortedNonExact |-> merged.sortedNonExact]
    /\ UNCHANGED <<sourcesReturn, inFlight, trieVars, nextRef, cacheVars, historyVars,
                   scoreVars, serviceVars>>

ScreenNext == handleSearch

\* the handleSearch calls that await their searches at the same time, at most
MaxInFlight == 2

\* handleSearch(text) up to its await: the query is set; a short text empties
\* the list and returns, a longer one leaves the call waiting for Promise.all
BeginHandleSearch ==
    /\ \E text \in ScreenTexts :
          /\ screenQuery' = text
          /\ IF Len(text) < 2
             THEN /\ screenResults' = <<>>
                  /\ showRecent' = TRUE
                  /\ screenOut' = [op |-> "short", text |-> text]
                  /\ inFlight' = inFlight
             ELSE /\ Len(inFlight) < MaxInFlight
                  /\ showRecent' = FALSE
                  /\ screenOut' = [op |-> "waiting", text |-> text]
                  /\ inFlight' = Append(inFlight, text)
                  /\ screenResults' = screenResults
    /\ UNCHANGED <<sourcesReturn, trieVars, nextRef, cacheVars, historyVars, scoreVars,
                   serviceVars>>

\* handleSearch(text) after its await: the four searches of one waiting call
\* have returned, and the list merged from them is set
ResumeHandleSearch ==
    /\ \E k \in 1..Len(inFlight) :
          LET text   == inFlight[k]
              found  == [s \in 1..4 |-> ReturnedBy(sourcesReturn, s)]
              merged == MergeResults(text, found)
          IN  /\ screenResults' = merged.exactMatches \o merged.sortedNonExact
              /\ screenOut' = [op |-> "merged", text |-> text, found |-> found,
                               exactMatches |-> merged.exactMatches,
                               sortedNonExact |-> merged.sortedNonExact]
              /\ inFlight' = SubSeq(inFlight, 1, k - 1) \o SubSeq(inFlight, k + 1, Len(inFlight))
    /\ UNCHANGED <<screenQuery, showRecent, sourcesReturn, trieVars, nextRef, cacheVars,
                   historyVars, scoreVars, serviceVars>>

TypingNext == BeginHandleSearch \/ ResumeHandleSearch

-----------------------------------------------------------------------------
(* Claims about the merged list and the scores *)

\* the sources whose results hold an entry for the text as typed, case aside
ExactSources(text, found) ==
    {s \in 1..4 : \E i \in 1..Len(found[s]) :
                     toLowerCase(found[s][i].word) = toLowerCase(text)}

\* C6 (orchestrator dedup): in the list handleSearch builds, every source whose
\* results hold an entry with the query as its word (case aside) has exactly one
\* promoted entry, in particular two promoted entries when two sources do, and
\* no entry of the ranked remainder has the (source, lowercased word) of a
\* promoted entry.
OrchestratorDedup ==
    screenOut.op = "merged" =>
        LET exact == screenOut.exactMatches
            rest  == screenOut.sortedNonExact
            srcs  == ExactSources(screenOut.text, screenOut.found)
        IN  /\ screenResults = exact \o rest
            /\ Len(exact) = Cardinality(srcs)
            /\ \A s \in srcs :
                  Cardinality({i \in 1..Len(exact) : exact[i].source = SourceIds[s]}) = 1
            /\ \A i \in 1..Len(exact) :
                  toLowerCase(exact[i].entry.word) = toLowerCase(screenOut.text)
            /\ \A i \in 1..Len(exact), j \in 1..Len(rest) :
                  ~(/\ rest[j].source = exact[i].source
                    /\ toLowerCase(rest[j].entry.word) = toLowerCase(exact[i].entry.word))

\* C6 witness: two sources returned the queried word, one of them twice; two
\* entries are promoted.
OrchestratorDedupWitness ==
    /\ screenOut.op = "merged"
    /\ Cardinality(ExactSources(screenOut.text, screenOut.found)) = 2
    /\ Len(screenOut.exactMatches) = 2
    /\ \E s \in 1..4 :
          Cardinality({i \in 1..Len(screenOut.found[s]) :
                          toLowerCase(screenOut.found[s][i].word) = toLowerCase(screenOut.text)}) = 2

\* the place of a source in the fixed order GPT, Voicetube, Yahoo, Cambridge
SourceRank(source) == CHOOSE s \in 1..4 : SourceIds[s] = source

\* C18 (merged result order): the list handleSearch shows begins with the
\* promoted exact matches, one for each source that returned the queried word,
\* in the order GPT, Voicetube, Yahoo, Cambridge; after them come all the entries
\* whose (source, lowercased word) is not that of a promoted entry, in
\* non-increasing order of calculateRelevanceScore.
MergedResultOrder ==
    screenOut.op = "merged" =>
        LET promoted == Cardinality(ExactSources(screenOut.text, screenOut.found))
            shown == screenResults
            promotedKeys == {ResultKey(shown[i]) : i \in 1..promoted}
            scoreAt(i) == calculateRelevanceScore(shown[i].entry, screenOut.text)
        IN  /\ promoted <= Len(shown)
            /\ \A i \in 1..promoted :
                  toLowerCase(shown[i].entry.word) = toLowerCase(screenOut.text)
            /\ \A i, j \in 1..promoted :
                  i < j => SourceRank(shown[i].source) < SourceRank(shown[j].source)
            /\ \A i, j \in (promoted + 1)..Len(shown) : i < j => scoreAt(i) >= scoreAt(j)
            /\ \A s \in 1..4 : \A k \in 1..Len(screenOut.found[s]) :
                  LET t == Tagged(screenOut.found[s][k], SourceIds[s])
                  IN  ResultKey(t) \notin promotedKeys =>
                          \E i \in (promoted + 1)..Len(shown) : shown[i] = t

\* C18 witness: a promoted entry is followed by two entries of the remainder
\* that the sources returned in increasing order of their scores.
MergedResultOrderWitness ==
    /\ screenOut.op = "merged"
    /\ Len(screenOut.exactMatches) = 1
    /\ Len(screenResults) = 3
    /\ calculateRelevanceScore(screenResults[2].entry, screenOut.text)
          > calculateRelevanceScore(screenResults[3].entry, screenOut.text)
    /\ \E s \in 1..4 :
          /\ Len(screenOut.found[s]) >= 2
          /\ screenOut.found[s][Len(screenOut.found[s])] = screenResults[2].entry
          /\ screenOut.found[s][Len(screenOut.found[s]) - 1] = screenResults[3].entry

\* the list handleSearch computes for a text when every search succeeds
ListFor(text) ==
    IF Len(text) < 2 THEN <<>>
    ELSE LET merged == MergeResults(text, [s \in 1..4 |-> ReturnedBy(sourcesReturn, s)])
         IN  merged.exactMatches \o merged.sortedNonExact

\* C28 (no stale results): once every handleSearch call has completed, the list
\* shown is the one computed for the text entered last, also when the calls
\* overlapped.
NoStaleResults == inFlight = <<>> => screenResults = ListFor(screenQuery)

\* C11 (failure isolation): when the search of one source fails, the list shown
\* is the list merged from the results of the other three sources, the failed
\* source counting as an empty list.
FailureIsolation ==
    screenOut.op = "rejected" =>
        LET others == [s \in 1..4 |-> IF s = screenOut.failed THEN <<>>
                                      ELSE screenOut.found[s]]
            merged == MergeResults(screenOut.text, others)
        IN  screenResults = merged.exactMatches \o merged.sortedNonExact

\* C7 (score monotonicity): under each scorer, an entry whose word is the query
\* (case aside) scores strictly higher than an entry whose word does not contain
\* the query and that matches through its definitions, however many of them.
ScoreMonotonicity ==
    (/\ scoreOut.op = "scored"
     /\ toLowerCase(scoreOut.a.word) = toLowerCase(scoreOut.q)
     /\ ~includes(toLowerCase(scoreOut.b.word), toLowerCase(scoreOut.q))
     /\ DefinitionHits(scoreOut.b, toLowerCase(scoreOut.q), FALSE) > 0)
    => scoreOut.scoreA > scoreOut.scoreB

-----------------------------------------------------------------------------
(* The per-source dictionary services: GPT (SearchService), Voicetube,     *)
(* Yahoo, Cambridge.  One service is followed per behaviour.                *)

Sources == {"gpt", "voicetube", "yahoo", "cambridge"}

DICTIONARY_CACHE_KEY(source) ==
    IF source = "yahoo" THEN <<"yahoo_dictionary_data">>
    ELSE IF source = "cambridge" THEN <<"cambridge_dictionary_data">>
    ELSE IF source = "voicetube" THEN <<"voicetube_dictionary_data">>
    ELSE <<"dictionary_data">>

\* the id the service hands to the trie: the Voicetube and GPT services hand none
DICTIONARY_ID(source) ==
    IF source = "yahoo" THEN "yahoo"
    ELSE IF source = "cambridge" THEN "cambridge"
    ELSE Undefined

\* `${this.SEARCH_RESULT_CACHE_KEY}:${normalizedQuery}`
SearchResultCacheKey(normalizedQuery) == <<"search_results", ":">> \o normalizedQuery

\* the placeholder of a meaning without definition: six Chinese characters,
\* each written here by its reading
NoDefinitionText == <<"zan", "wu", "zhong", "wen", "shi", "yi">>

\* Array.prototype.join('; ')
RECURSIVE JoinWithSemicolon(_)
JoinWithSemicolon(parts) ==
    IF parts = <<>> THEN <<>>
    ELSE IF Len(parts) = 1 THEN parts[1]
    ELSE parts[1] \o <<";", " ">> \o JoinWithSemicolon(Tail(parts))

\* x || fallback, for strings
OrElse(text, fallback) == IF text # <<>> THEN text ELSE fallback

\* A raw record, in the one shape the four datasets are given in here:
\*   word, phonetic, translation   strings, <<>> when the field is missing
\*   meanings   [isArray, items]: the list of meanings (GPT: definitions), when
\*              the field is an array; an item has definition (a string, <<>>
\*              when missing), its translation, and examples
\*   examples   the examples of the record (Voicetube: sentences)
\* partOfSpeech is missing from every item, so that each normalizer writes 'word'.

\* Yahoo: one Meaning per raw meaning, or one placeholder Meaning
NormalizeYahoo(raw) ==
    [word |-> raw.word, phonetic |-> raw.phonetic,
     meanings |-> IF raw.meanings.isArray
                  THEN [m \in 1..Len(raw.meanings.items) |->
                          [partOfSpeech |-> "word",
                           definitions |-> <<OrElse(raw.meanings.items[m].definition,
                                                    NoDefinitionText)>>,
                           examples |-> raw.meanings.items[m].examples]]
                  ELSE <<[partOfSpeech |-> "word", definitions |-> <<NoDefinitionText>>,
                          examples |-> raw.examples]>>,
     translation |-> raw.translation]

\* Voicetube: the same, with the sentences of the record as examples of each meaning
NormalizeVoicetube(raw) ==
    [word |-> raw.word, phonetic |-> raw.phonetic,
     meanings |-> IF raw.meanings.isArray
                  THEN [m \in 1..Len(raw.meanings.items) |->
                          [partOfSpeech |-> "word",
                           definitions |-> <<OrElse(raw.meanings.items[m].definition,
                                                    NoDefinitionText)>>,
                           examples |-> raw.examples]]
                  ELSE <<[partOfSpeech |-> "word", definitions |-> <<NoDefinitionText>>,
                          examples |-> raw.examples]>>,
     translation |-> raw.translation]

\* GPT: definitions [def.definition || ''], examples [def.example] when there is one
NormalizeGpt(raw) ==
    [word |-> raw.word, phonetic |-> raw.phonetic,
     meanings |-> IF raw.meanings.isArray
                  THEN [m \in 1..Len(raw.meanings.items) |->
                          [partOfSpeech |-> "word",
                           definitions |-> <<raw.meanings.items[m].definition>>,
                           examples |-> SliceFromStart(raw.meanings.items[m].examples, 1)]]
                  ELSE <<[partOfSpeech |-> "word", definitions |-> <<<<>>>>,
                          examples |-> <<>>]>>,
     translation |-> raw.translation]

\* Cambridge: a meaning holds [definition, translation] pairs; the definitions
\* that are not empty are kept, the placeholder stands in when none is; the
\* translations of all meanings are joined
NormalizeCambridge(raw) ==
    LET items == raw.meanings.items
        definitionsOf(m) == IF items[m].definition # <<>> THEN <<items[m].definition>>
                            ELSE <<>>
        allTranslations == SelectSeq([m \in 1..Len(items) |-> items[m].translation],
                                     LAMBDA t : t # <<>>)
    IN  [word |-> raw.word, phonetic |-> raw.phonetic,
         meanings |-> IF raw.meanings.isArray
                      THEN [m \in 1..Len(items) |->
                              [partOfSpeech |-> "word",
                               definitions |-> IF Len(definitionsOf(m)) > 0
                                               THEN definitionsOf(m)
                                               ELSE <<NoDefinitionText>>,
                               examples |-> items[m].examples]]
                      ELSE <<[partOfSpeech |-> "word", definitions |-> <<NoDefinitionText>>,
                              examples |-> <<>>]>>,
         translation |-> IF raw.meanings.isArray THEN JoinWithSemicolon(allTranslations)
                         ELSE <<>>]

NormalizeRecord(source, raw) ==
    IF source = "yahoo" THEN NormalizeYahoo(raw)
    ELSE IF source = "voicetube" THEN NormalizeVoicetube(raw)
    ELSE IF source = "cambridge" THEN NormalizeCambridge(raw)
    ELSE NormalizeGpt(raw)

\* rawDictionary.map(...).filter(Boolean): the records without a word are
\* dropped; the entries are new objects, with the identities base + 1, ...
NormalizeDataset(source, records, base) ==
    LET withWord == SelectSeq(records, LAMBDA raw : raw.word # <<>>)
    IN  WithRefs([i \in 1..Len(withWord) |-> NormalizeRecord(source, withWord[i])], base)

\* .map(entry => ({entry, score})).sort((a, b) => b.score - a.score).map(r => r.entry)
RankBySourceScore(source, candidates, normalizedQuery) ==
    LET scored == [i \in 1..Len(candidates) |->
                     [entry |-> candidates[i],
                      score |-> IF source = "gpt"
                                THEN trieCalculateMatchScore(candidates[i], normalizedQuery)
                                ELSE sourceCalculateMatchScore(candidates[i], normalizedQuery)]]
        sorted == SortByScore(scored)
    IN  [i \in 1..Len(sorted) |-> sorted[i].entry]

\* a mutant of SearchTrie: the fuzzy search is always made and its results added
SearchTrieAlsoFuzzy(source, r, normalizedQuery) ==
    RankBySourceScore(source,
                      search(r, normalizedQuery, DICTIONARY_ID(source))
                        \o fuzzySearch(r, normalizedQuery, DICTIONARY_ID(source),
                                       DefaultMaxDistance),
                      normalizedQuery)

\* the prefix search, the fuzzy search when it finds nothing, then the ranking
SearchTrie(source, r, normalizedQuery) ==
    LET trieResults == search(r, normalizedQuery, DICTIONARY_ID(source))
        results == IF Len(trieResults) = 0
                   THEN fuzzySearch(r, normalizedQuery, DICTIONARY_ID(source),
                                    DefaultMaxDistance)
                   ELSE trieResults
    IN  RankBySourceScore(source, results, normalizedQuery)

\* the page size of search(query) when the caller names none
DefaultPageSize == 20


\* the calls that are in flight at the same time: two
Slots == {1, 2}

\* the calls made in one behaviour
MaxCalls == 3

Idle == [pc |-> "idle"]

\* a call of initialize() or search(query), with the locals it keeps over its awaits
NewCall(op, q) ==
    [pc |-> "called", op |-> op, query |-> q, cached |-> Null, setThrew |-> FALSE,
     results |-> <<>>, history |-> <<>>]

\* the service with the trie and the cache it uses
World ==
    [dictionary |-> svcDictionary, isInitialized |-> svcIsInitialized,
     root |-> root, currentDictionaryId |-> currentDictionaryId,
     trieIsInitialized |-> trieIsInitialized, cache |-> CacheState,
     normalizeCount |-> normalizeCount, buildCount |-> buildCount,
     loadFailed |-> loadFailed]

\* What a step of a call leaves: the world, the call (Idle once it has
\* returned or thrown) and the outcome of the last call that ended.
Pending(w, call) == [w |-> w, call |-> call, out |-> svcOut]

Finish(w, call, threw, result, atOnce) ==
    [w |-> w, call |-> Idle,
     out |-> [op |-> call.op, query |-> call.query, threw |-> threw, result |-> result,
              atOnce |-> atOnce]]

\* catch: throw new Error('Failed to load ... dictionary'); search() lets it through
FailLoad(w, call) == Finish([w EXCEPT !.loadFailed = TRUE], call, TRUE, <<>>, FALSE)

\* a mutant of InitializeReturnsAtOnce: initialize() always loads
InitializeAlwaysLoads(isInitialized) == FALSE

\* if (this.isInitialized) return;
InitializeReturnsAtOnce(isInitialized) == isInitialized

\* await this.trieService.initialize(this.dictionary, this.DICTIONARY_ID)
BuildTrie(w) ==
    LET res == TrieInitializeResult(w.root, w.trieIsInitialized, w.dictionary,
                                    DICTIONARY_ID(svcSource))
    IN  [w |-> [w EXCEPT !.root = res.root, !.trieIsInitialized = res.isInitialized,
                         !.currentDictionaryId = DICTIONARY_ID(svcSource),
                         !.buildCount = @ + 1],
         threw |-> res.threw]

\* initialize() past its guard, up to the await of cacheService.get
BeginLoad(w, call, fails) ==
    LET got == CacheGetResult(w.cache, DICTIONARY_CACHE_KEY(svcSource), now, fails)
    IN  Pending([w EXCEPT !.cache = got.cache],
                [call EXCEPT !.pc = "afterGet", !.cached = got.result])

\* the search of the GPT service from the cache lookup on, up to its await
BeginResultsGet(w, call, normalizedQuery, fails) ==
    LET got == CacheGetResult(w.cache, SearchResultCacheKey(normalizedQuery), now, fails)
    IN  Pending([w EXCEPT !.cache = got.cache],
                [call EXCEPT !.pc = "afterResultsGet", !.cached = got.result])

\* search() after its initialize(): the empty query, then the trie (the GPT
\* service asks the cache first)
SearchBody(w, call, fails) ==
    LET normalizedQuery == trim(toLowerCase(call.query))
    IN  IF normalizedQuery = <<>> THEN Finish(w, call, FALSE, <<>>, FALSE)
        ELSE IF svcSource = "gpt" THEN BeginResultsGet(w, call, normalizedQuery, fails)
        ELSE Finish(w, call, FALSE, SearchTrie(svcSource, w.root, normalizedQuery), FALSE)

\* `autocomplete:${normalizedQuery}`
AutocompleteCacheKey(normalizedQuery) == <<"autocomplete", ":">> \o normalizedQuery

\* a mutant of FilterSuggestions: the list is not cut
FilterSuggestionsUncut(dictionary, normalizedQuery) ==
    SelectSeq(dictionary, LAMBDA entry : startsWith(normalizeText(entry.word), normalizedQuery))

\* the suggestions of the SearchService without trie:
\* dictionary.filter(entry => normalizeText(entry.word).startsWith(normalizedQuery)).slice(0, 5)
FilterSuggestions(dictionary, normalizedQuery) ==
    SliceFromStart(SelectSeq(dictionary, LAMBDA entry :
                       startsWith(normalizeText(entry.word), normalizedQuery)), 5)

\* getAutocompleteSuggestions of the service with trie, from the cache lookup
\* on, up to its await
BeginSuggestGet(w, call, normalizedQuery, fails) ==
    LET got == CacheGetResult(w.cache, AutocompleteCacheKey(normalizedQuery), now, fails)
    IN  Pending([w EXCEPT !.cache = got.cache],
                [call EXCEPT !.pc = "afterSuggestGet", !.cached = got.result])

\* getAutocompleteSuggestions(query) after its initialize(): the empty query,
\* then the cache and the trie, or the filter over the dictionary
SuggestBody(w, call, fails) ==
    LET normalizedQuery == normalizeText(call.query)
    IN  IF normalizedQuery = <<>> THEN Finish(w, call, FALSE, <<>>, FALSE)
        ELSE IF svcSource = "gpt" THEN BeginSuggestGet(w, call, normalizedQuery, fails)
        ELSE Finish(w, call, FALSE, FilterSuggestions(w.dictionary, normalizedQuery), FALSE)

\* after cacheService.get: the cached suggestions, or
\* trieService.search(normalizedQuery).slice(0, 5), called without a dictionary
\* id, which is handed to cacheService.set
ContinueAfterSuggestGet(w, call, fails) ==
    LET normalizedQuery == normalizeText(call.query)
    IN  IF ~call.cached.isNull THEN Finish(w, call, FALSE, call.cached.data, FALSE)
        ELSE LET suggestions == SliceFromStart(search(w.root, normalizedQuery, Undefined), 5)
                 set == CacheSetResult(w.cache, AutocompleteCacheKey(normalizedQuery),
                                       suggestions, now, fails, fails, fails)
             IN  Pending([w EXCEPT !.cache = set.cache],
                         [call EXCEPT !.pc = "afterSuggestSet", !.results = suggestions,
                                      !.setThrew = set.threw])

\* after cacheService.set, whose failure getAutocompleteSuggestions lets through
ContinueAfterSuggestSet(w, call) ==
    IF call.setThrew THEN Finish(w, call, TRUE, <<>>, FALSE)
    ELSE Finish(w, call, FALSE, call.results, FALSE)

\* initialize() has returned to its caller
InitializeReturns(w, call, fails, atOnce) ==
    IF call.op = "initialize" THEN Finish(w, call, FALSE, <<>>, atOnce)
    ELSE IF call.op = "suggest" THEN SuggestBody(w, call, fails)
    ELSE SearchBody(w, call, fails)

\* initialize() of the SearchService without trie: the dataset is loaded and
\* normalized, nothing is cached or indexed
LoadWithoutCache(w, call, fails) ==
    IF ~svcDataset.loads THEN FailLoad(w, call)
    ELSE LET normalized == NormalizeDataset(svcSource, svcDataset.records, w.cache.refs)
         IN  InitializeReturns([w EXCEPT !.dictionary = normalized,
                                         !.cache.refs = @ + Len(normalized),
                                         !.normalizeCount = @ + 1,
                                         !.isInitialized = TRUE],
                               call, fails, FALSE)

\* initialize(), called directly or by search()
EnterInitialize(w, call, fails) ==
    IF InitializeReturnsAtOnce(w.isInitialized) THEN InitializeReturns(w, call, fails, TRUE)
    ELSE IF svcSource = "searchService" THEN LoadWithoutCache(w, call, fails)
    ELSE BeginLoad(w, call, fails)

\* getAutocompleteSuggestions(query): if (!this.isInitialized) await this.initialize()
EnterSuggest(w, call, fails) ==
    IF ~w.isInitialized THEN EnterInitialize(w, call, fails) ELSE SuggestBody(w, call, fails)

\* search(query): if (!this.isInitialized) await this.initialize()
EnterSearch(w, call, fails) ==
    IF ~w.isInitialized THEN EnterInitialize(w, call, fails) ELSE SearchBody(w, call, fails)

\* initialize() after cacheService.get: the cached dictionary goes to the trie;
\* without one the dataset is loaded, normalized and handed to cacheService.set
ContinueAfterGet(w, call, fails) ==
    IF ~call.cached.isNull
    THEN LET built == BuildTrie([w EXCEPT !.dictionary = call.cached.data])
         IN  IF built.threw THEN FailLoad(built.w, call)
             ELSE Pending(built.w, [call EXCEPT !.pc = "afterBuild"])
    ELSE IF ~svcDataset.loads THEN FailLoad(w, call)
    ELSE LET normalized == NormalizeDataset(svcSource, svcDataset.records, w.cache.refs)
             w1  == [w EXCEPT !.dictionary = normalized,
                              !.cache.refs = @ + Len(normalized),
                              !.normalizeCount = @ + 1]
             set == CacheSetResult(w1.cache, DICTIONARY_CACHE_KEY(svcSource), normalized,
                                   now, fails, fails, fails)
         IN  Pending([w1 EXCEPT !.cache = set.cache],
                     [call EXCEPT !.pc = "afterSet", !.setThrew = set.threw])

\* initialize() after cacheService.set: this.dictionary goes to the trie
ContinueAfterSet(w, call) ==
    IF call.setThrew THEN FailLoad(w, call)
    ELSE LET built == BuildTrie(w)
         IN  IF built.threw THEN FailLoad(built.w, call)
             ELSE Pending(built.w, [call EXCEPT !.pc = "afterBuild"])

\* initialize() after trieService.initialize: this.isInitialized = true
ContinueAfterBuild(w, call, fails) ==
    InitializeReturns([w EXCEPT !.isInitialized = TRUE], call, fails, FALSE)

\* addToSearchHistory(query) up to the await of AsyncStorage.getItem
BeginHistoryRead(w, call, results, fails) ==
    Pending(w, [call EXCEPT !.pc = "afterHistoryRead", !.results = results,
                            !.history = StoredList(w.cache.storage, SEARCH_HISTORY_KEY, fails)])

\* the GPT search after cacheService.get: the cached results, or the trie's,
\* which are handed to cacheService.set
ContinueAfterResultsGet(w, call, fails) ==
    LET normalizedQuery == normalizeText(call.query)
    IN  IF ~call.cached.isNull THEN BeginHistoryRead(w, call, call.cached.data, fails)
        ELSE LET results == SearchTrie(svcSource, w.root, normalizedQuery)
                 set == CacheSetResult(w.cache, SearchResultCacheKey(normalizedQuery),
                                       results, now, fails, fails, fails)
             IN  Pending([w EXCEPT !.cache = set.cache],
                         [call EXCEPT !.pc = "afterResultsSet", !.results = results,
                                      !.setThrew = set.threw])

\* the GPT search after cacheService.set, whose failure search() lets through
ContinueAfterResultsSet(w, call, fails) ==
    IF call.setThrew THEN Finish(w, call, TRUE, <<>>, FALSE)
    ELSE BeginHistoryRead(w, call, call.results, fails)

\* addToSearchHistory after the read: the new history is handed to setItem
ContinueAfterHistoryRead(w, call, fails) ==
    LET newHistory == SliceFromStart(<<call.query>> \o OtherItems(call.history, call.query),
                                     MAX_HISTORY_ITEMS)
    IN  Pending([w EXCEPT !.cache.storage =
                     IF fails THEN @ ELSE MapSet(@, SEARCH_HISTORY_KEY, JsonOfList(newHistory))],
                [call EXCEPT !.pc = "afterHistoryWrite"])

\* the GPT search after addToSearchHistory: the first page of the results
ContinueAfterHistoryWrite(w, call) ==
    Finish(w, call, FALSE, SliceFromStart(call.results, DefaultPageSize), FALSE)

\* initialize() is between its guard and its return
Loading(call) == call.pc \in {"afterGet", "afterSet", "afterBuild"}

ServiceBecomes(s, res) ==
    /\ svcDictionary' = res.w.dictionary
    /\ svcIsInitialized' = res.w.isInitialized
    /\ root' = res.w.root
    /\ currentDictionaryId' = res.w.currentDictionaryId
    /\ trieIsInitialized' = res.w.trieIsInitialized
    /\ CacheBecomes(res.w.cache)
    /\ normalizeCount' = res.w.normalizeCount
    /\ buildCount' = res.w.buildCount
    /\ loadFailed' = res.w.loadFailed
    /\ calls' = [calls EXCEPT ![s] = res.call]
    /\ svcOut' = res.out
    /\ overlapped' = (overlapped \/ (/\ ~Loading(calls[s]) /\ Loading(res.call)
                                     /\ \E t \in Slots \ {s} : Loading(calls[t])))
    /\ UNCHANGED <<svcSource, svcDataset, indexed, trieOut, now, lastSet, removed, cacheOps,
                   cacheOut, historyVars, screenVars, scoreVars>>

\* the slot a new call takes: the first that is free
FreeSlot(s) == calls[s] = Idle /\ \A t \in Slots : t < s => calls[t] # Idle

RawAb ==
    [word |-> Str2("A", "b"), phonetic |-> <<>>,
     meanings |-> [isArray |-> TRUE,
                   items |-> <<[definition |-> Str3("a", "b", "b"), translation |-> <<>>,
                                examples |-> <<>>]>>],
     examples |-> <<>>, translation |-> <<>>]

RawWithoutWord == [RawAb EXCEPT !.word = <<>>]

RawWithoutMeanings ==
    [word |-> Str2("a", "b"), phonetic |-> <<>>,
     meanings |-> [isArray |-> FALSE, items |-> <<>>],
     examples |-> <<>>, translation |-> <<>>]

\* a record whose meanings (GPT: definitions) field is the empty array
RawWithEmptyMeanings ==
    [word |-> Str2("b", "b"), phonetic |-> <<>>,
     meanings |-> [isArray |-> TRUE, items |-> <<>>],
     examples |-> <<>>, translation |-> <<>>]

\* the datasets: one that cannot be loaded, an empty one, one record, two records
\* of which one has an empty list of meanings, and three records of which one
\* has no word
ServiceDatasets ==
    { [loads |-> FALSE, records |-> <<>>],
      [loads |-> TRUE, records |-> <<>>],
      [loads |-> TRUE, records |-> <<RawAb>>],
      [loads |-> TRUE, records |-> <<RawWithEmptyMeanings, RawAb>>],
      [loads |-> TRUE, records |-> <<RawWithoutWord, RawWithoutMeanings, RawAb>>] }

ServiceQueries == {<<" ", " ">>, Str2("A", "b"), Str2("b", "b")}

ServiceInit ==
    /\ svcDictionary = <<>>
    /\ svcIsInitialized = FALSE
    /\ calls = [s \in Slots |-> Idle]
    /\ started = <<>>
    /\ normalizeCount = 0
    /\ buildCount = 0
    /\ overlapped = FALSE
    /\ loadFailed = FALSE
    /\ svcOut = NoCall

\* initialize() is called
CallInitialize ==
    /\ Len(started) < MaxCalls
    /\ started' = Append(started, "initialize")
    /\ \E s \in Slots, fails \in BOOLEAN :
          /\ FreeSlot(s)
          /\ ServiceBecomes(s, EnterInitialize(World, NewCall("initialize", <<>>), fails))

\* search(query) is called
CallSearch ==
    /\ Len(started) < MaxCalls
    /\ started' = Append(started, "search")
    /\ \E s \in Slots, q \in ServiceQueries, fails \in BOOLEAN :
          /\ FreeSlot(s)
          /\ ServiceBecomes(s, EnterSearch(World, NewCall("search", q), fails))

\* a call goes on after an await; the AsyncStorage calls of the step fail or not
AfterGet ==
    /\ \E s \in Slots, fails \in BOOLEAN :
          /\ calls[s].pc = "afterGet"
          /\ ServiceBecomes(s, ContinueAfterGet(World, calls[s], fails))
    /\ UNCHANGED started

AfterSet ==
    /\ \E s \in Slots :
          /\ calls[s].pc = "afterSet"
          /\ ServiceBecomes(s, ContinueAfterSet(World, calls[s]))
    /\ UNCHANGED started

AfterBuild ==
    /\ \E s \in Slots, fails \in BOOLEAN :
          /\ calls[s].pc = "afterBuild"
          /\ ServiceBecomes(s, ContinueAfterBuild(World, calls[s], fails))
    /\ UNCHANGED started

AfterResultsGet ==
    /\ \E s \in Slots, fails \in BOOLEAN :
          /\ calls[s].pc = "afterResultsGet"
          /\ ServiceBecomes(s, ContinueAfterResultsGet(World, calls[s], fails))
    /\ UNCHANGED started

AfterResultsSet ==
    /\ \E s \in Slots, fails \in BOOLEAN :
          /\ calls[s].pc = "afterResultsSet"
          /\ ServiceBecomes(s, ContinueAfterResultsSet(World, calls[s], fails))
    /\ UNCHANGED started

AfterHistoryRead ==
    /\ \E s \in Slots, fails \in BOOLEAN :
          /\ calls[s].pc = "afterHistoryRead"
          /\ ServiceBecomes(s, ContinueAfterHistoryRead(World, calls[s], fails))
    /\ UNCHANGED started

AfterHistoryWrite ==
    /\ \E s \in Slots :
          /\ calls[s].pc = "afterHistoryWrite"
          /\ ServiceBecomes(s, ContinueAfterHistoryWrite(World, calls[s]))
    /\ UNCHANGED started

\* a record of the GPT dataset with the given word
SuggestRecord(word) == [RawAb EXCEPT !.word = word]

\* the datasets of the services that suggest: one that cannot be loaded, an
\* empty one, and six records of which five begin with "ab" once normalized
SuggestDatasets ==
    { [loads |-> FALSE, records |-> <<>>],
      [loads |-> TRUE, records |-> <<>>],
      [loads |-> TRUE,
       records |-> <<SuggestRecord(Str2("a", "b")), SuggestRecord(Str1("b")),
                     SuggestRecord(Str3(" ", "A", "b")), SuggestRecord(Str3("a", "b", "b")),
                     SuggestRecord(Str2("A", "B")), SuggestRecord(Str3("a", "B", "a"))>>],
      [loads |-> TRUE,
       records |-> <<SuggestRecord(Str2("a", "b")), SuggestRecord(Str2("A", "b")),
                     SuggestRecord(Str2("a", "B")), SuggestRecord(Str3("a", "b", "b")),
                     SuggestRecord(Str2("A", "B")), SuggestRecord(Str3("a", "B", "a"))>>] }

SuggestQueries == {<<" ", " ">>, Str2("a", "b"), Str3("A", "b", " "), Str1("b")}

\* the services that have getAutocompleteSuggestions: the SearchService with
\* trie and the one without
SuggestVersions == {"gpt", "searchService"}

\* getAutocompleteSuggestions(query) is called
CallSuggest ==
    /\ Len(started) < MaxCalls
    /\ started' = Append(started, "suggest")
    /\ \E s \in Slots, q \in SuggestQueries, fails \in BOOLEAN :
          /\ FreeSlot(s)
          /\ ServiceBecomes(s, EnterSuggest(World, NewCall("suggest", q), fails))

AfterSuggestGet ==
    /\ \E s \in Slots, fails \in BOOLEAN :
          /\ calls[s].pc = "afterSuggestGet"
          /\ ServiceBecomes(s, ContinueAfterSuggestGet(World, calls[s], fails))
    /\ UNCHANGED started

AfterSuggestSet ==
    /\ \E s \in Slots :
          /\ calls[s].pc = "afterSuggestSet"
          /\ ServiceBecomes(s, ContinueAfterSuggestSet(World, calls[s]))
    /\ UNCHANGED started

SuggestNext ==
    \/ CallSuggest \/ AfterGet \/ AfterSet \/ AfterBuild \/ AfterSuggestGet \/ AfterSuggestSet

ServiceNext ==
    \/ CallInitialize \/ CallSearch \/ AfterGet \/ AfterSet \/ AfterBuild
    \/ AfterResultsGet \/ AfterResultsSet \/ AfterHistoryRead \/ AfterHistoryWrite

-----------------------------------------------------------------------------
(* Claims about the per-source services *)

InitializeCalled ==
    Len(started') = Len(started) + 1 /\ started'[Len(started')] = "initialize"

\* C8 (initialize is idempotent): an initialize() called on a service whose
\* earlier initialize() has completed successfully returns at once and leaves
\* the normalized entry list, the cache and the trie as they are; nothing is
\* normalized or built for it.
IdempotentInitialize ==
    [][(svcIsInitialized /\ InitializeCalled) =>
          /\ UNCHANGED <<svcDictionary, svcIsInitialized, root, currentDictionaryId,
                         trieIsInitialized, memoryCache, diskCache, totalSize, storage,
                         normalizeCount, buildCount, calls>>
          /\ svcOut'.op = "initialize" /\ svcOut'.atOnce /\ ~svcOut'.threw]_vars

\* C8 witness: a service with entries in its trie was initialized, and a later
\* initialize() returned at once.
IdempotentInitializeWitness ==
    /\ svcIsInitialized
    /\ svcDictionary # <<>>
    /\ buildCount = 1
    /\ svcOut.op = "initialize" /\ svcOut.atOnce

\* the trie one initialize() builds from the entries of the service
TrieOfOneInitialize ==
    TrieInitializeResult((<<>> :> createNode), FALSE, svcDictionary,
                         DICTIONARY_ID(svcSource)).root

NoWordTwice(r) ==
    \A path \in DOMAIN r, id \in DictIds :
        \A i, j \in 1..Len(r[path].entries[id]) :
            i # j => r[path].entries[id][i].word # r[path].entries[id][j].word

\* C9 (concurrent initialization guard): when an initialize() was begun while
\* another one was under way and no load has failed, then once every call has
\* ended the dataset was normalized once, the trie was built once, the trie is
\* the trie of one initialize() and no node holds two entries for a word.
ConcurrentInitializationGuard ==
    (overlapped /\ ~loadFailed /\ \A s \in Slots : calls[s] = Idle) =>
        /\ normalizeCount <= 1
        /\ buildCount <= 1
        /\ root = TrieOfOneInitialize
        /\ NoWordTwice(root)

\* C10 (empty query): a search whose query is empty once trimmed returns the
\* empty list and does not raise, whatever the state of the service.
EmptyQueryReturnsEmpty ==
    (svcOut.op = "search" /\ trim(svcOut.query) = <<>>) =>
        ~svcOut.threw /\ svcOut.result = <<>>

\* an entry without its identity
ShapeOf(entry) == JsonOfData(<<entry>>)[1]

\* how often a list holds an entry of the given shape
TimesIn(list, shape) == Cardinality({i \in 1..Len(list) : ShapeOf(list[i]) = shape})

\* C20 (load failure and retry): an initialize() on a service that is not
\* initialized never returns at once, and when a load has failed and a later
\* attempt has succeeded, a search() returns each entry at most as often as
\* the search on the trie of one successful initialize() does.
LoadFailureAndRetry ==
    /\ (svcOut.op = "initialize" /\ svcOut.atOnce) => svcIsInitialized
    /\ (/\ loadFailed /\ svcIsInitialized
        /\ svcOut.op = "search" /\ ~svcOut.threw /\ svcSource # "gpt") =>
            \A i \in 1..Len(svcOut.result) :
                TimesIn(svcOut.result, ShapeOf(svcOut.result[i]))
                    <= TimesIn(SearchTrie(svcSource, TrieOfOneInitialize,
                                          normalizeText(svcOut.query)),
                               ShapeOf(svcOut.result[i]))

\* C16 (normalization invariant): every entry of a service's dictionary, which
\* its normalization produced, has a non-empty word, at least one Meaning, and at
\* least one definition string in each Meaning.
NormalizationInvariant ==
    \A i \in 1..Len(svcDictionary) :
        /\ svcDictionary[i].word # <<>>
        /\ Len(svcDictionary[i].meanings) >= 1
        /\ \A m \in 1..Len(svcDictionary[i].meanings) :
              Len(svcDictionary[i].meanings[m].definitions) >= 1

\* the call that ended last was a getAutocompleteSuggestions that returned
Suggested == svcOut.op = "suggest" /\ ~svcOut.threw

IsReordering(a, b) ==
    /\ Len(a) = Len(b)
    /\ \A i \in 1..Len(a) : CountIn(a, a[i]) = CountIn(b, a[i])

\* this step ends a search(): one that was in flight, or one that is called and
\* returns without waiting
SearchEnds ==
    /\ svcOut'.op = "search"
    /\ \/ \E s \in Slots : calls[s] # Idle /\ calls[s].op = "search" /\ calls'[s] = Idle
       \/ (started' # started /\ calls' = calls)

\* C21 (prefix before fuzzy): a search(q) of a per-source service with non-empty
\* q that returns while the trie's prefix search finds at least one entry returns
\* a reordering of exactly the prefix-search result; only when the prefix search
\* finds nothing does it return a reordering of the fuzzySearch result.
PrefixBeforeFuzzy ==
    [][(SearchEnds /\ ~svcOut'.threw /\ normalizeText(svcOut'.query) # <<>>
        /\ svcSource # "gpt") =>
          \A q \in {normalizeText(svcOut'.query)} :
            \A byPrefix \in {search(root, q, DICTIONARY_ID(svcSource))} :
              IF byPrefix # <<>> THEN IsReordering(svcOut'.result, byPrefix)
              ELSE \A byFuzzy \in {fuzzySearch(root, q, DICTIONARY_ID(svcSource),
                                               DefaultMaxDistance)} :
                      IsReordering(svcOut'.result, byFuzzy)]_vars

\* C21 witness: a search returned the prefix-search result while the fuzzy
\* search holds an entry that the prefix search does not find.
PrefixBeforeFuzzyWitness ==
    /\ svcOut.op = "search" /\ ~svcOut.threw
    /\ \A s \in Slots : calls[s] = Idle
    /\ buildCount = 1
    /\ LET q == normalizeText(svcOut.query)
           byPrefix == search(root, q, DICTIONARY_ID(svcSource))
           byFuzzy == fuzzySearch(root, q, DICTIONARY_ID(svcSource), DefaultMaxDistance)
       IN  /\ byPrefix # <<>>
           /\ IsReordering(svcOut.result, byPrefix)
           /\ \E i \in 1..Len(byFuzzy) : ~Includes(byPrefix, byFuzzy[i])

\* calculateMatchScore of the service that is followed
SourceScore(entry, q) ==
    IF svcSource = "gpt" THEN trieCalculateMatchScore(entry, q)
    ELSE sourceCalculateMatchScore(entry, q)

\* the candidates with the highest score first, each score level in the order
\* of the candidates
RECURSIVE ByScoreLevels(_, _, _)
ByScoreLevels(candidates, q, levels) ==
    IF levels = {} THEN <<>>
    ELSE LET top == CHOOSE x \in levels : \A y \in levels : x >= y
         IN  SelectSeq(candidates, LAMBDA e : SourceScore(e, q) = top)
               \o ByScoreLevels(candidates, q, levels \ {top})

\* what the trie hands to the ranking: the prefix-search result, or the
\* fuzzySearch result when that is empty
Candidates(r, q) ==
    IF search(r, q, DICTIONARY_ID(svcSource)) # <<>>
    THEN search(r, q, DICTIONARY_ID(svcSource))
    ELSE fuzzySearch(r, q, DICTIONARY_ID(svcSource), DefaultMaxDistance)

\* C22 (per-source ranking): the list a per-source search(q) returns holds
\* exactly the candidates retrieved from the trie, none filtered out, in
\* non-increasing order of calculateMatchScore, candidates of equal score in
\* their retrieval order.
PerSourceRanking ==
    [][(SearchEnds /\ ~svcOut'.threw /\ normalizeText(svcOut'.query) # <<>>
        /\ svcSource # "gpt") =>
          \A q \in {normalizeText(svcOut'.query)} :
            \A candidates \in {Candidates(root, q)} :
              svcOut'.result =
                ByScoreLevels(candidates, q,
                              {SourceScore(candidates[i], q) : i \in 1..Len(candidates)})]_vars

\* C22 witness: a search returned two different objects of equal score in
\* their retrieval order, after a candidate of higher score that was retrieved
\* after one of them.
PerSourceRankingWitness ==
    /\ svcOut.op = "search" /\ ~svcOut.threw
    /\ \A s \in Slots : calls[s] = Idle
    /\ LET q == normalizeText(svcOut.query)
           candidates == Candidates(root, q)
           res == svcOut.result
       IN  /\ Len(res) = Len(candidates)
           /\ Len(res) >= 3
           /\ SourceScore(candidates[1], q) < SourceScore(candidates[2], q)
           /\ res[1] = candidates[2]
           /\ \E i, j \in 1..Len(res) :
                 /\ i < j /\ res[i] # res[j]
                 /\ SourceScore(res[i], q) = SourceScore(res[j], q)
                 /\ res[i] = candidates[1]

\* this step ends, by throwing, the initialize() that the call of slot s was in
LoadThrows(s) == Loading(calls[s]) /\ calls'[s] = Idle /\ svcOut'.threw

\* C30 (every service indexes under its own source id): for each of the four
\* services, an initialize() throws only when the dataset cannot be loaded or
\* cacheService.set has thrown, so that on a dataset that loads it completes;
\* and a search(w) that returns, for the word w of an entry of the service's
\* dictionary, returns a list that holds this entry.
SourcesIndexUnderOwnId ==
    [][/\ \A s \in Slots :
            LoadThrows(s) => (~svcDataset.loads \/ calls[s].setThrew)
       /\ (SearchEnds /\ ~svcOut'.threw) =>
            \A i \in 1..Len(svcDictionary) :
                svcOut'.query = svcDictionary[i].word
                    => TimesIn(svcOut'.result, ShapeOf(svcDictionary[i])) >= 1]_vars

-----------------------------------------------------------------------------
(* Specifications *)

\* every service as constructed, nothing called yet
Init ==
    /\ TrieInit /\ CacheInit /\ HistoryInit /\ historyImpl = "searchService"
    /\ ScreenInit /\ sourcesReturn = <<>>
    /\ ScoreInit /\ scoredPair = <<NoEntry, NoEntry>>
    /\ ServiceInit /\ svcSource = "yahoo" /\ svcDataset = [loads |-> TRUE, records |-> <<>>]

\* the same, for each implementation of the search history
InitHistory ==
    /\ TrieInit /\ CacheInit /\ HistoryInit /\ historyImpl \in HistoryImpls
    /\ ScreenInit /\ sourcesReturn = <<>>
    /\ ScoreInit /\ scoredPair = <<NoEntry, NoEntry>>
    /\ ServiceInit /\ svcSource = "yahoo" /\ svcDataset = [loads |-> TRUE, records |-> <<>>]

\* the same, for each content of the four sources
InitScreen ==
    /\ TrieInit /\ CacheInit /\ HistoryInit /\ historyImpl = "searchService"
    /\ ScreenInit /\ sourcesReturn \in SourcesReturn
    /\ ScoreInit /\ scoredPair = <<NoEntry, NoEntry>>
    /\ ServiceInit /\ svcSource = "yahoo" /\ svcDataset = [loads |-> TRUE, records |-> <<>>]

\* the same, for each pair of entries to score
InitScore ==
    /\ TrieInit /\ CacheInit /\ HistoryInit /\ historyImpl = "searchService"
    /\ ScreenInit /\ sourcesReturn = <<>>
    /\ ScoreInit /\ scoredPair \in ScoredEntries \X ScoredEntries
    /\ ServiceInit /\ svcSource = "yahoo" /\ svcDataset = [loads |-> TRUE, records |-> <<>>]

\* the trie under arbitrary calls of its public methods
SpecTrie == Init /\ [][TrieNext]_vars

\* the cache under arbitrary calls of its public methods, and the clock
SpecCache == Init /\ [][CacheNext]_vars

\* history additions, one at a time
SpecHistory == InitHistory /\ [][HistoryNext]_vars

\* searches typed into the search screen
SpecScreen == InitScreen /\ [][ScreenNext]_vars

\* entries scored against a query
SpecScore == InitScore /\ [][ScoreNext]_vars

\* the same as Init, for each service and dataset
InitService ==
    /\ TrieInit /\ CacheInit /\ HistoryInit /\ historyImpl = "searchServiceWithTrie"
    /\ ScreenInit /\ sourcesReturn = <<>>
    /\ ScoreInit /\ scoredPair = <<NoEntry, NoEntry>>
    /\ ServiceInit /\ svcSource \in Sources /\ svcDataset \in ServiceDatasets

\* the same, for each service that suggests and each of its datasets
InitSuggest ==
    /\ TrieInit /\ CacheInit /\ HistoryInit /\ historyImpl = "searchServiceWithTrie"
    /\ ScreenInit /\ sourcesReturn = <<>>
    /\ ScoreInit /\ scoredPair = <<NoEntry, NoEntry>>
    /\ ServiceInit /\ svcSource \in SuggestVersions /\ svcDataset \in SuggestDatasets

\* the cache under set and get calls while AsyncStorage works, and the clock
SpecStored == Init /\ [][StoredNext]_vars

\* history and favorites written to the store that the cache clears
SpecStore == InitHistory /\ [][StoreNext]_vars

\* texts typed into the search box while earlier searches are in flight
SpecTyping == InitScreen /\ [][TypingNext]_vars

\* history additions that overlap between their read and their write
SpecRace == InitHistory /\ [][RaceNext]_vars

\* calls of getAutocompleteSuggestions(), overlapping at their awaits
SpecSuggest == InitSuggest /\ [][SuggestNext]_vars

\* calls of initialize() and search() on one per-source service, overlapping
\* at their awaits
SpecService == InitService /\ [][ServiceNext]_vars

=============================================================================
